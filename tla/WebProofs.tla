----------------------------- MODULE WebProofs -----------------------------
(***************************************************************************)
(* Proofs about the pages of the web application: CaseDetailPage,          *)
(* IntakePage and StaffPages, for any number of clicks, cases, tenants and *)
(* filters, with the answers in any order.                                 *)
(***************************************************************************)
EXTENDS MCWeb, FiniteSetTheorems, TLAPS

-----------------------------------------------------------------------------
(* The page of one case: its invariant.                                    *)

Chains ==
  {<<>>, <<"activity">>, <<"case", "activity">>, <<"documents", "activity">>,
   <<"triage", "activity">>, <<"case", "triage", "activity">>}

PostKinds == Parts \cup Changes
PostChanges == Changes \cup {"none"}
PostCodes == {0, 1, 200, 401, 500}
ResultNos == 0..Len(Suggested)
StoredStates == ResultStates \ {"none"}
CaseRecord == [status : Statuses, department : Departments]

Post ==
  [what : PostKinds, change : PostChanges, no : Nat, then : Chains, status : Statuses,
   resultNo : ResultNos, accepted : BOOLEAN, department : Departments, edited : BOOLEAN,
   made : BOOLEAN, code : PostCodes, seen : Nat, state : ResultStates]

CaseFlags ==
  /\ chosen \in BOOLEAN /\ edited \in BOOLEAN /\ running \in BOOLEAN
  /\ saving \in BOOLEAN /\ saved \in BOOLEAN /\ left \in BOOLEAN

ServerTypes ==
  /\ version \in [Parts -> Nat] /\ mine \in [Parts -> Nat]
  /\ \A p \in Parts : mine[p] <= version[p]
  /\ record \in CaseRecord
  /\ results \in Seq(StoredStates) /\ Len(results) \in ResultNos /\ Len(results) > 0

PageTypes ==
  /\ view \in [Parts -> Nat] /\ \A p \in Parts : view[p] <= version[p]
  /\ shown \in CaseRecord
  /\ result \in [no : ResultNos, state : ResultStates]
  /\ select \in Statuses /\ form \in Departments
  /\ unseen \subseteq Parts /\ untold \subseteq Parts /\ clicks \in Nat

\* A change is followed by its loads, an answer is not newer than what is
\* stored, and a review was sent by a form that followed the suggestion.
PostTrue(q) ==
  /\ q.what \in Changes => q.change = q.what /\ q.then = ReloadsAfter(q.what)
  /\ q.resultNo = 0 => q.state = "none"
  /\ q.code = 0 => ~q.made
  /\ q.code = 200 /\ q.what \in Parts => q.seen <= version[q.what]
  /\ q.code = 200 /\ q.what = "run" => q.seen <= version["triage"]
  /\ q.what = "review" /\ q.code = 0 =>
       /\ q.accepted => q.department = Suggested[q.resultNo]
       /\ ~q.accepted => q.edited

OnlyOne(change) ==
  \A q1, q2 \in posts : q1.change = change /\ q2.change = change => q1 = q2

\* What is on its way will show part p as the user left it, or have it missed, or
\* not be reported.
Covers(q, p) ==
  \/ q.what \in Parts /\ p \in Awaited(q)
  \/ q.what = p /\ (q.code = 200 => q.seen >= mine[p])
  \/ q.what \in Changes /\ q.made /\ q.code # 200 /\ p \in TouchedBy(q.what)
  \/ q.what \in Changes /\ q.code = 200 /\ p \in Awaited(q)
  \/ q.what = "run" /\ q.code = 200 /\ p = "triage" /\ q.seen >= mine[p]

FormsTrue ==
  /\ ~chosen => select = shown.status
  /\ result.no # 0 /\ ~edited => form = Suggested[result.no]
  /\ result.no = 0 => result.state = "none"

\* The user's last change to part p is shown, was missed or not reported, or comes.
Settled(p) == view[p] >= mine[p] \/ p \in unseen \/ p \in untold
Comes(p) == Settled(p) \/ \E q \in posts : Covers(q, p)

PostsTrue == posts \subseteq Post /\ \A q \in posts : PostTrue(q)

ButtonsTrue ==
  /\ left => posts = {}
  /\ ButtonsWaitForAnswers
  /\ OnlyOne("run") /\ OnlyOne("review")

CasePageInv ==
  /\ CaseFlags /\ ServerTypes /\ PageTypes
  /\ PostsTrue /\ ButtonsTrue /\ FormsTrue
  /\ left \/ \A p \in Parts : Comes(p)

-----------------------------------------------------------------------------
(* The public page: its invariant.                                         *)

CallRecord ==
  [kind : {"search", "submit", "lookup"}, no : Nat, tenant : Tenants,
   address : TenantOrNone \cup {Typed}, moved : BOOLEAN, code : {0, 200, 500}]

\* A call that has not been overtaken by a change of municipality is for the
\* one selected.
CallTrue(c) ==
  /\ c \in CallRecord
  /\ ~c.moved => c.tenant = tenant
  /\ c.kind = "lookup" => c.no <= asked

OneCall(kind) ==
  \A c1, c2 \in calls : c1.kind = kind /\ c2.kind = kind => c1 = c2

IntakePageInv ==
  /\ IntakePageTypeOK
  /\ intakeClicks \in Nat /\ asked \in Nat /\ asked <= intakeClicks
  /\ \A c \in calls : CallTrue(c)
  /\ OneCall("search") /\ OneCall("submit")
  /\ MunicipalitiesAgree /\ CodeStaysVisible /\ ResultsAreAnswers

-----------------------------------------------------------------------------
(* The staff pages: their invariant.                                       *)

PageAsks(kind) ==
  IF kind = "privacy" THEN {"status", "policy"} \cup OfficerCalls
  ELSE IF kind = "analytics" THEN {"list", "aggregate"} ELSE {"list"}

AskKinds == {"list", "status", "policy", "aggregate"} \cup OfficerCalls
AskCodes == {0, 1, 200, 401, 500}
AskRecord ==
  [what : AskKinds, filter : Filters, no : Nat, chain : BOOLEAN, made : BOOLEAN,
   code : AskCodes, seen : Nat]

\* The user's last change was made, and its answer is on its way.
Made == \E a \in asks : a.made

\* A query of this page; the answer to the list wanted is not older than the
\* user's last change, unless that one is not yet, or not at all, reported.
AskTrue(q) ==
  /\ q \in AskRecord /\ q.what \in PageAsks(pageKind) /\ q.no <= staffClicks /\ q.seen <= data
  /\ q.no = wanted.no => q.filter = wanted.filter
  /\ q.what = "list" /\ q.code = 200 /\ q.no = wanted.no =>
       \/ q.seen >= own \/ unreported \/ Made
  /\ q.chain => q.what = "list"
  /\ q.made => q.what \in ChangingCalls
  /\ q.what \in ChangingCalls /\ q.code = 200 => q.made
  /\ q.what = "update" /\ q.code = 200 => q.seen >= own
  /\ q.what \in {"status", "policy"} => own = 0

OnlyAsks ==
  /\ \A q1, q2 \in asks : q1.no = q2.no => q1 = q2
  /\ \A q1, q2 \in asks : Working(q1) /\ Working(q2) => q1 = q2

BusyTrue == ~away => (busy <=> \E q \in asks : Working(q))

WantedComes == \E q \in asks : q.what = "list" /\ q.no = wanted.no

\* What the user asked for last is shown, is on its way or was missed; and so
\* is the user's last change, or it was never reported.
ListComes ==
  away \/ pageKind = "privacy" \/ list.filter = wanted.filter \/ missed \/ WantedComes

OwnComes == away \/ list.seen >= own \/ missed \/ unreported \/ Made \/ WantedComes

StaffFlags ==
  /\ failed \in BOOLEAN /\ busy \in BOOLEAN /\ away \in BOOLEAN
  /\ missed \in BOOLEAN /\ unreported \in BOOLEAN

StaffFields ==
  /\ pageKind \in Kinds /\ draft \in Filters
  /\ staffClicks \in Nat /\ data \in Nat /\ own \in Nat /\ own <= data
  /\ wanted \in [filter : Filters, no : Nat] /\ wanted.no <= staffClicks
  /\ list \in [filter : Filters, no : Nat, seen : Nat] /\ list.seen <= data
  /\ away => asks = {}
  /\ pageKind \in {"cases", "audit"} => own = 0

StaffPagesInv ==
  /\ StaffFlags /\ StaffFields
  /\ \A q \in asks : AskTrue(q)
  /\ OnlyAsks /\ BusyTrue /\ ListComes /\ OwnComes

-----------------------------------------------------------------------------
(* The public page: its steps.                                             *)

Coded(c, code) == [c EXCEPT !.code = code]
Moved(c) == [c EXCEPT !.moved = TRUE]

LEMMA CallFields ==
  ASSUME NEW c \in CallRecord
  PROVE  /\ c.kind \in {"search", "submit", "lookup"} /\ c.no \in Nat /\ c.tenant \in Tenants
         /\ c.moved \in BOOLEAN /\ c.code \in {0, 200, 500}
BY DEF CallRecord

LEMMA CodedCall ==
  ASSUME NEW c \in CallRecord, NEW code \in {200, 500}
  PROVE  /\ Coded(c, code) \in CallRecord
         /\ Coded(c, code).kind = c.kind /\ Coded(c, code).no = c.no
         /\ Coded(c, code).tenant = c.tenant /\ Coded(c, code).moved = c.moved
BY DEF CallRecord, Coded

LEMMA MovedCall ==
  ASSUME NEW c \in CallRecord
  PROVE  /\ Moved(c) \in CallRecord /\ Moved(c).kind = c.kind /\ Moved(c).no = c.no
         /\ Moved(c).tenant = c.tenant /\ Moved(c).moved = TRUE
BY ZenonT(60) DEF CallRecord, Moved

LEMMA NewCall ==
  ASSUME NEW kind \in {"search", "submit", "lookup"}, NEW no \in Nat,
         IntakePageTypeOK, tenant # NoTenant
  PROVE  /\ Call(kind, no) \in CallRecord /\ Call(kind, no).kind = kind
         /\ Call(kind, no).no = no /\ Call(kind, no).tenant = tenant
BY DEF Call, CallRecord, IntakePageTypeOK, TenantOrNone

LEMMA TenantsDiffer == NoTenant \notin Tenants /\ Typed \notin Tenants /\ Typed # NoTenant
BY IntakePageAssumption

\* The calls are as they were.
SameCalls == UNCHANGED <<tenant, calls>> /\ asked <= asked' /\ asked' \in Nat

LEMMA CallsStay ==
  ASSUME IntakePageInv, SameCalls
  PROVE  /\ \A c \in calls' : CallTrue(c)'
         /\ OneCall("search")' /\ OneCall("submit")'
<1>1. ASSUME NEW c \in calls
      PROVE  CallTrue(c)'
  <2>1. CallTrue(c) /\ asked \in Nat
    BY DEF IntakePageInv
  <2>2. c.no \in Nat
    BY <2>1, CallFields DEF CallTrue
  <2> QED BY <2>1, <2>2 DEF CallTrue, SameCalls
<1> QED BY <1>1 DEF SameCalls, OneCall, IntakePageInv

\* A call is made when none of its kind awaits its answer, or a lookup is.
LEMMA CallAdded ==
  ASSUME IntakePageInv, NEW kind \in {"search", "submit", "lookup"}, tenant # NoTenant,
         tenant' = tenant, intakeClicks' \in Nat, asked <= asked', asked' \in Nat,
         kind = "lookup" => asked' = intakeClicks',
         calls' = calls \cup {Call(kind, intakeClicks')},
         kind = "lookup" \/ \A c \in calls : c.kind # kind
  PROVE  /\ \A c \in calls' : CallTrue(c)'
         /\ OneCall("search")' /\ OneCall("submit")'
         /\ \A k : (\E c \in calls' : c.kind = k) <=> (k = kind \/ \E c \in calls : c.kind = k)
<1>1. PICK new : new = Call(kind, intakeClicks')
  OBVIOUS
<1>2. new \in CallRecord /\ new.kind = kind /\ new.no = intakeClicks' /\ new.tenant = tenant
  BY <1>1, NewCall DEF IntakePageInv
<1>3. \A c \in calls : CallTrue(c) /\ c \in CallRecord /\ asked \in Nat
  BY DEF IntakePageInv, CallTrue
<1>4. CallTrue(new)'
  BY <1>2 DEF CallTrue
<1>5. ASSUME NEW c \in calls
      PROVE  CallTrue(c)'
  <2>1. c.no \in Nat
    BY <1>3, CallFields
  <2> QED BY <1>3, <2>1 DEF CallTrue
<1> QED BY <1>1, <1>2, <1>4, <1>5 DEF OneCall, IntakePageInv

LEMMA CallGone ==
  ASSUME IntakePageInv, NEW c0 \in calls, calls' = calls \ {c0}, UNCHANGED <<tenant, asked>>
  PROVE  /\ \A c \in calls' : CallTrue(c)'
         /\ OneCall("search")' /\ OneCall("submit")'
         /\ \A k \in {"search", "submit"} :
              (\E c \in calls' : c.kind = k) <=> k # c0.kind /\ \E c \in calls : c.kind = k
         /\ c0.kind # "lookup" =>
              ((\E c \in calls' : c.kind = "lookup") <=> \E c \in calls : c.kind = "lookup")
<1>1. \A c \in calls : CallTrue(c)'
  BY DEF IntakePageInv, CallTrue
<1> QED BY <1>1 DEF OneCall, IntakePageInv

FlagTypes ==
  /\ submitting \in BOOLEAN /\ searching \in BOOLEAN /\ checking \in BOOLEAN
  /\ confirmed \in BOOLEAN /\ known \in BOOLEAN

FormTypes ==
  /\ tenant \in TenantOrNone /\ tab \in {"submit", "status"}
  /\ address \in TenantOrNone \cup {Typed}
  /\ suggestions \in TenantOrNone /\ success \in TenantOrNone
  /\ found.tenant \in TenantOrNone /\ found.no \in 0..asked
  /\ fields \in {"empty", "typed", "submitted"}
  /\ strayed \subseteq {"suggestions", "address", "success", "found"}
  /\ intakeClicks \in Nat /\ asked \in Nat /\ asked <= intakeClicks

IntakeFieldTypes == FlagTypes /\ FormTypes

LEMMA IntakeFields ==
  ASSUME IntakePageInv
  PROVE  /\ IntakeFieldTypes /\ intakeClicks + 1 \in Nat /\ asked <= intakeClicks + 1
         /\ asked < intakeClicks + 1
         /\ Nowhere.tenant = NoTenant /\ Nowhere.no = 0 /\ ~Nowhere.late
BY DEF IntakePageInv, IntakePageTypeOK, IntakeFieldTypes, FlagTypes, FormTypes, Nowhere

LEMMA IntakeKept ==
  ASSUME IntakeFieldTypes', \A c \in calls' : CallTrue(c)',
         OneCall("search")' /\ OneCall("submit")',
         MunicipalitiesAgree', CodeStaysVisible', ResultsAreAnswers'
  PROVE  IntakePageInv'
<1>1. \A c \in calls' : c \in CallRecord
  BY DEF CallTrue
<1>2. \A c \in calls' : c.kind \in {"search", "submit", "lookup"} /\ c.tenant \in Tenants
  BY <1>1, CallFields
<1>3. IntakePageTypeOK'
  BY <1>2 DEF IntakePageTypeOK, IntakeFieldTypes, FlagTypes, FormTypes
<1> QED BY <1>3 DEF IntakePageInv, IntakeFieldTypes, FormTypes

\* What the citizen does without a call.
LEMMA QuietClick ==
  ASSUME IntakePageInv, TypeAddress \/ ConfirmAddress \/ TypeCode \/ SubmitAnother
                        \/ \E name \in {"submit", "status"} : OpenTab(name)
  PROVE  IntakePageInv'
<1> USE TenantsDiffer, IntakeFields
<1>1. UNCHANGED <<tenant, calls, flagVars, asked>> /\ intakeClicks' = intakeClicks + 1
  BY DEF TypeAddress, ConfirmAddress, TypeCode, SubmitAnother, OpenTab, Click, OnForm, ghostVars
<1>2. /\ \A c \in calls' : CallTrue(c)'
      /\ OneCall("search")' /\ OneCall("submit")'
  BY <1>1, CallsStay DEF SameCalls, IntakeFieldTypes, FormTypes
<1>3. CASE TypeAddress
  <2>1. IntakeFieldTypes'
    <3>1. FlagTypes'
      BY <1>3 DEF TypeAddress, OnForm, Click, flagVars, IntakeFieldTypes, FlagTypes
    <3>2. FormTypes'
      BY <1>3 DEF TypeAddress, OnForm, Click, flagVars, IntakeFieldTypes, FormTypes, TenantOrNone
    <3> QED BY <3>1, <3>2 DEF IntakeFieldTypes
  <2>2. MunicipalitiesAgree' /\ CodeStaysVisible' /\ ResultsAreAnswers'
    BY <1>3 DEF TypeAddress, OnForm, Click, flagVars, IntakePageInv, MunicipalitiesAgree,
                CodeStaysVisible, ResultsAreAnswers
  <2> QED BY <1>2, <2>1, <2>2, IntakeKept
<1>4. CASE ConfirmAddress
  <2>1. IntakeFieldTypes'
    <3>1. FlagTypes'
      BY <1>4 DEF ConfirmAddress, OnForm, Click, flagVars, IntakeFieldTypes, FlagTypes
    <3>2. FormTypes'
      BY <1>4 DEF ConfirmAddress, OnForm, Click, flagVars, IntakeFieldTypes, FormTypes, TenantOrNone
    <3> QED BY <3>1, <3>2 DEF IntakeFieldTypes
  <2>2. MunicipalitiesAgree' /\ CodeStaysVisible' /\ ResultsAreAnswers'
    BY <1>4 DEF ConfirmAddress, OnForm, Click, flagVars, IntakePageInv, MunicipalitiesAgree,
                CodeStaysVisible, ResultsAreAnswers, IntakeFieldTypes, FormTypes,
                TenantOrNone
  <2> QED BY <1>2, <2>1, <2>2, IntakeKept
<1>5. CASE TypeCode
  <2>1. IntakeFieldTypes'
    <3>1. FlagTypes'
      BY <1>5 DEF TypeCode, OnForm, Click, flagVars, IntakeFieldTypes, FlagTypes
    <3>2. FormTypes'
      BY <1>5 DEF TypeCode, OnForm, Click, flagVars, IntakeFieldTypes, FormTypes, TenantOrNone
    <3> QED BY <3>1, <3>2 DEF IntakeFieldTypes
  <2>2. MunicipalitiesAgree' /\ CodeStaysVisible' /\ ResultsAreAnswers'
    BY <1>5 DEF TypeCode, OnForm, Click, flagVars, IntakePageInv, MunicipalitiesAgree,
                CodeStaysVisible, ResultsAreAnswers
  <2> QED BY <1>2, <2>1, <2>2, IntakeKept
<1>6. CASE SubmitAnother
  <2>3. /\ success' = NoTenant /\ fields' = "empty" /\ found' = Nowhere /\ known' = FALSE
        /\ strayed' \subseteq strayed
        /\ UNCHANGED <<tenant, tab, address, suggestions, confirmed, submitting, searching,
                       checking, asked>>
    BY <1>6 DEF SubmitAnother, flagVars
  <2>1. IntakeFieldTypes'
    <3>1. FlagTypes'
      BY <1>1, <2>3 DEF IntakeFieldTypes, FlagTypes
    <3>2. FormTypes'
      BY <1>1, <2>3 DEF IntakeFieldTypes, FormTypes, TenantOrNone
    <3> QED BY <3>1, <3>2 DEF IntakeFieldTypes
  <2>2. MunicipalitiesAgree' /\ CodeStaysVisible' /\ ResultsAreAnswers'
    BY <1>6 DEF SubmitAnother, Click, flagVars, IntakePageInv, MunicipalitiesAgree,
                CodeStaysVisible, ResultsAreAnswers
  <2> QED BY <1>2, <2>1, <2>2, IntakeKept
<1>7. CASE \E name \in {"submit", "status"} : OpenTab(name)
  <2>1. IntakeFieldTypes'
    <3>1. FlagTypes'
      BY <1>7 DEF OpenTab, Click, flagVars, ghostVars, IntakeFieldTypes, FlagTypes
    <3>2. FormTypes'
      BY <1>7 DEF OpenTab, Click, flagVars, ghostVars, IntakeFieldTypes, FormTypes, TenantOrNone
    <3> QED BY <3>1, <3>2 DEF IntakeFieldTypes
  <2>2. MunicipalitiesAgree' /\ CodeStaysVisible' /\ ResultsAreAnswers'
    BY <1>7 DEF OpenTab, Click, flagVars, ghostVars, IntakePageInv, MunicipalitiesAgree,
                CodeStaysVisible, ResultsAreAnswers
  <2> QED BY <1>2, <2>1, <2>2, IntakeKept
<1> QED BY <1>3, <1>4, <1>5, <1>6, <1>7

\* From now on what is awaited is of another municipality.
LEMMA SelectTenantKeeps ==
  ASSUME IntakePageInv, NEW t \in TenantOrNone, SelectTenant(t)
  PROVE  IntakePageInv'
<1> USE TenantsDiffer, IntakeFields
<1>1. \A c \in calls : CallTrue(c) /\ c \in CallRecord
  BY DEF IntakePageInv, CallTrue
<1>2. calls' = {Moved(c) : c \in calls}
  BY DEF SelectTenant, Moved
<1>3. ASSUME NEW c \in calls
      PROVE  CallTrue(Moved(c))' /\ Moved(c).kind = c.kind
  <2>1. PICK later : later = Moved(c)
    OBVIOUS
  <2>2. later \in CallRecord /\ later.kind = c.kind /\ later.no = c.no /\ later.moved = TRUE
    BY <1>1, <2>1, MovedCall
  <2>3. CallTrue(later)'
    BY <1>1, <2>2 DEF CallTrue, SelectTenant
  <2> QED BY <2>1, <2>2, <2>3
<1>4. /\ \A c \in calls' : CallTrue(c)'
      /\ OneCall("search")' /\ OneCall("submit")'
      /\ \A k : (\E c \in calls' : c.kind = k) <=> \E c \in calls : c.kind = k
  BY <1>2, <1>3 DEF OneCall, IntakePageInv
<1>5. IntakeFieldTypes'
  <2>1. /\ tenant' = t /\ address' = NoTenant /\ suggestions' = NoTenant /\ confirmed' = FALSE
        /\ found' \in {found, Nowhere} /\ strayed' \subseteq strayed
        /\ intakeClicks' = intakeClicks + 1
        /\ UNCHANGED <<tab, success, fields, submitting, searching, checking, asked, known>>
    BY DEF SelectTenant, Click, flagVars
  <2>2. FlagTypes'
    BY <2>1 DEF IntakeFieldTypes, FlagTypes
  <2>3. FormTypes'
    BY <2>1 DEF IntakeFieldTypes, FormTypes, TenantOrNone
  <2> QED BY <2>2, <2>3 DEF IntakeFieldTypes
<1>6. ResultsAreAnswers'
  BY <1>4 DEF SelectTenant, Click, flagVars, IntakePageInv, ResultsAreAnswers
<1>7. MunicipalitiesAgree' /\ CodeStaysVisible'
  BY DEF SelectTenant, Click, flagVars, IntakePageInv, MunicipalitiesAgree, CodeStaysVisible
<1> QED BY <1>4, <1>5, <1>6, <1>7, IntakeKept

LEMMA SearchAddressKeeps ==
  ASSUME IntakePageInv, SearchAddress
  PROVE  IntakePageInv'
<1> USE TenantsDiffer, IntakeFields
<1>1. /\ tenant # NoTenant /\ ~searching
      /\ UNCHANGED <<tenant, tab, address, success, found, fields, submitting, checking,
                     asked, known>>
      /\ suggestions' = NoTenant /\ confirmed' = FALSE /\ strayed' = strayed \ {"suggestions"}
      /\ intakeClicks' = intakeClicks + 1
  BY DEF SearchAddress, OnForm, Click
<1>2. \/ UNCHANGED <<searching, calls>>
      \/ searching' = TRUE /\ calls' = calls \cup {Call("search", intakeClicks')}
  BY DEF SearchAddress
<1>3. searching' \in BOOLEAN
  BY <1>2 DEF IntakeFieldTypes, FlagTypes
<1>4. intakeClicks' \in Nat /\ asked <= asked' /\ asked' \in Nat
  BY <1>1 DEF IntakeFieldTypes, FormTypes
<1>5. /\ \A c \in calls' : CallTrue(c)'
      /\ OneCall("search")' /\ OneCall("submit")'
      /\ \A k \in {"submit", "lookup"} :
           (\E c \in calls' : c.kind = k) <=> \E c \in calls : c.kind = k
      /\ searching' <=> \E c \in calls' : c.kind = "search"
  <2>1. (\A c \in calls : c.kind # "search") /\ (searching <=> \E c \in calls : c.kind = "search")
    BY <1>1 DEF IntakePageInv, ResultsAreAnswers
  <2>2. CASE UNCHANGED <<searching, calls>>
    BY <1>1, <1>4, <2>1, <2>2, CallsStay DEF SameCalls
  <2>3. CASE searching' = TRUE /\ calls' = calls \cup {Call("search", intakeClicks')}
    <3>1. /\ \A c \in calls' : CallTrue(c)'
          /\ OneCall("search")' /\ OneCall("submit")'
          /\ \A k : (\E c \in calls' : c.kind = k)
                     <=> (k = "search" \/ \E c \in calls : c.kind = k)
      BY <1>1, <1>4, <2>1, <2>3, CallAdded
    <3> QED BY <2>3, <3>1
  <2> QED BY <1>2, <2>2, <2>3
<1>6. IntakeFieldTypes'
  <2>1. FlagTypes'
    BY <1>1, <1>3 DEF IntakeFieldTypes, FlagTypes
  <2>2. FormTypes'
    BY <1>1 DEF IntakeFieldTypes, FormTypes, TenantOrNone
  <2> QED BY <2>1, <2>2 DEF IntakeFieldTypes
<1>7. ResultsAreAnswers'
  BY <1>1, <1>5 DEF IntakePageInv, ResultsAreAnswers
<1>8. MunicipalitiesAgree' /\ CodeStaysVisible'
  BY <1>1 DEF IntakePageInv, MunicipalitiesAgree, CodeStaysVisible
<1> QED BY <1>5, <1>6, <1>7, <1>8, IntakeKept

LEMMA SubmitCaseKeeps ==
  ASSUME IntakePageInv, SubmitCase
  PROVE  IntakePageInv'
<1> USE TenantsDiffer, IntakeFields
<1>1. /\ tenant # NoTenant /\ ~submitting /\ submitting' = TRUE
      /\ UNCHANGED <<tenant, tab, address, suggestions, confirmed, success, found, fields,
                     searching, checking, asked, known, strayed>>
      /\ intakeClicks' = intakeClicks + 1
      /\ calls' = calls \cup {Call("submit", intakeClicks')}
  BY DEF SubmitCase, OnForm, Click, fieldVars, ghostVars
<1>2. /\ \A c \in calls' : CallTrue(c)'
      /\ OneCall("search")' /\ OneCall("submit")'
      /\ \A k : (\E c \in calls' : c.kind = k) <=> (k = "submit" \/ \E c \in calls : c.kind = k)
  <2>1. \A c \in calls : c.kind # "submit"
    BY <1>1 DEF IntakePageInv, ResultsAreAnswers
  <2>2. intakeClicks' \in Nat /\ asked <= asked' /\ asked' \in Nat
    BY <1>1 DEF IntakeFieldTypes, FormTypes
  <2> QED BY <1>1, <2>1, <2>2, CallAdded
<1>3. IntakeFieldTypes'
  <2>1. FlagTypes'
    BY <1>1 DEF IntakeFieldTypes, FlagTypes
  <2>2. FormTypes'
    BY <1>1 DEF IntakeFieldTypes, FormTypes
  <2> QED BY <2>1, <2>2 DEF IntakeFieldTypes
<1>4. ResultsAreAnswers'
  BY <1>1, <1>2 DEF IntakePageInv, ResultsAreAnswers
<1>5. MunicipalitiesAgree' /\ CodeStaysVisible'
  BY <1>1 DEF IntakePageInv, MunicipalitiesAgree, CodeStaysVisible
<1> QED BY <1>2, <1>3, <1>4, <1>5, IntakeKept

\* A lookup, from either screen: without a municipality it does nothing.
LEMMA BeginLookupKeeps ==
  ASSUME IntakePageInv, NEW screen \in SUBSET {"found", "success"}, BeginLookup(screen),
         "found" \in screen, "success" \in screen => success' = NoTenant,
         UNCHANGED <<tenant, address, suggestions, confirmed, submitting, searching, known>>,
         tab' \in {"submit", "status"}, success' \in {success, NoTenant},
         fields' \in {"empty", "typed", "submitted"},
         intakeClicks' = intakeClicks + 1, CodeStaysVisible'
  PROVE  IntakePageInv'
<1> USE TenantsDiffer, IntakeFields
<1>1. CASE tenant = NoTenant
  <2>1. UNCHANGED <<checking, asked, found, strayed, calls>>
    BY <1>1 DEF BeginLookup
  <2>2. /\ \A c \in calls' : CallTrue(c)'
        /\ OneCall("search")' /\ OneCall("submit")'
    BY <2>1, CallsStay DEF SameCalls, IntakeFieldTypes, FormTypes
  <2>3. IntakeFieldTypes'
    <3>1. FlagTypes'
      BY <2>1 DEF IntakeFieldTypes, FlagTypes
    <3>2. FormTypes'
      BY <2>1 DEF IntakeFieldTypes, FormTypes, TenantOrNone
    <3> QED BY <3>1, <3>2 DEF IntakeFieldTypes
  <2>4. MunicipalitiesAgree' /\ ResultsAreAnswers'
    BY <1>1, <2>1 DEF MunicipalitiesAgree, IntakePageInv, ResultsAreAnswers
  <2> QED BY <2>2, <2>3, <2>4, IntakeKept
<1>2. CASE tenant # NoTenant
  <2>1. /\ checking' = TRUE /\ asked' = intakeClicks'
        /\ found' = Nowhere /\ strayed' = strayed \ screen
        /\ calls' = calls \cup {Call("lookup", intakeClicks')}
    BY <1>2 DEF BeginLookup
  <2>2. /\ \A c \in calls' : CallTrue(c)'
        /\ OneCall("search")' /\ OneCall("submit")'
        /\ \A k : (\E c \in calls' : c.kind = k) <=> (k = "lookup" \/ \E c \in calls : c.kind = k)
    <3>1. intakeClicks' \in Nat /\ asked <= asked' /\ asked' \in Nat
      BY <2>1 DEF IntakeFieldTypes, FormTypes
    <3> QED BY <1>2, <2>1, <3>1, CallAdded
  <2>3. IntakeFieldTypes'
    <3>1. FlagTypes'
      BY <2>1 DEF IntakeFieldTypes, FlagTypes
    <3>2. FormTypes'
      BY <2>1 DEF IntakeFieldTypes, FormTypes, TenantOrNone
    <3> QED BY <3>1, <3>2 DEF IntakeFieldTypes
  <2>4. ResultsAreAnswers'
    BY <2>1, <2>2 DEF IntakePageInv, ResultsAreAnswers
  <2>5. MunicipalitiesAgree'
    BY <2>1 DEF IntakePageInv, MunicipalitiesAgree
  <2> QED BY <2>2, <2>3, <2>4, <2>5, IntakeKept
<1> QED BY <1>1, <1>2

LEMMA LookupsKeep ==
  ASSUME IntakePageInv, LookUpStatus \/ CheckSubmittedCase
  PROVE  IntakePageInv'
<1> USE TenantsDiffer, IntakeFields
<1>1. CASE LookUpStatus
  <2>1. CodeStaysVisible'
    BY <1>1 DEF LookUpStatus, CodeStaysVisible, IntakePageInv
  <2> QED BY <1>1, <2>1, BeginLookupKeeps DEF LookUpStatus, OnForm, Click, IntakeFieldTypes, FormTypes
<1>2. CASE CheckSubmittedCase
  <2>1. CodeStaysVisible'
    BY <1>2 DEF CheckSubmittedCase, CodeStaysVisible
  <2> QED BY <1>2, <2>1, BeginLookupKeeps DEF CheckSubmittedCase, Click, IntakeFieldTypes, FormTypes
<1> QED BY <1>1, <1>2

LEMMA AnswerCallKeeps ==
  ASSUME IntakePageInv, NEW c0 \in calls, AnswerCall(c0)
  PROVE  IntakePageInv'
<1> USE TenantsDiffer, IntakeFields
<1>1. PICK code \in {200, 500} : calls' = (calls \ {c0}) \cup {Coded(c0, code)}
  BY DEF AnswerCall, Coded
<1>2. UNCHANGED <<tenant, tab, address, suggestions, confirmed, success, found, fields,
                  submitting, searching, checking, asked, known, strayed, intakeClicks>>
  BY DEF AnswerCall, fieldVars, flagVars, ghostVars
<1>3. PICK later : later = Coded(c0, code)
  OBVIOUS
<1>4. \A c \in calls : CallTrue(c) /\ c \in CallRecord
  BY DEF IntakePageInv, CallTrue
<1>5. /\ later \in CallRecord /\ later.kind = c0.kind /\ later.no = c0.no
      /\ later.tenant = c0.tenant /\ later.moved = c0.moved
  BY <1>3, <1>4, CodedCall
<1>6. CallTrue(later)' /\ \A c \in calls : CallTrue(c)'
  BY <1>2, <1>4, <1>5 DEF CallTrue
<1>7. /\ \A c \in calls' : CallTrue(c)'
      /\ OneCall("search")' /\ OneCall("submit")'
      /\ \A k : (\E c \in calls' : c.kind = k) <=> \E c \in calls : c.kind = k
  BY <1>1, <1>3, <1>5, <1>6 DEF OneCall, IntakePageInv
<1>8. IntakeFieldTypes'
  <2>1. FlagTypes'
    BY <1>2 DEF IntakeFieldTypes, FlagTypes
  <2>2. FormTypes'
    BY <1>2 DEF IntakeFieldTypes, FormTypes
  <2> QED BY <2>1, <2>2 DEF IntakeFieldTypes
<1>9. MunicipalitiesAgree' /\ CodeStaysVisible' /\ ResultsAreAnswers'
  BY <1>2, <1>7 DEF IntakePageInv, MunicipalitiesAgree, CodeStaysVisible, ResultsAreAnswers
<1> QED BY <1>7, <1>8, <1>9, IntakeKept

\* The answer to a call made before the municipality changed is told apart.
LEMMA ReceivesKeep ==
  ASSUME IntakePageInv, NEW c0 \in calls,
         ReceiveSearch(c0) \/ ReceiveSubmit(c0) \/ ReceiveLookup(c0)
  PROVE  IntakePageInv'
<1> USE TenantsDiffer, IntakeFields
<1>1. CallTrue(c0) /\ c0 \in CallRecord
  BY DEF IntakePageInv, CallTrue
<1>2. /\ c0.tenant \in Tenants /\ c0.no \in Nat /\ (~c0.moved => c0.tenant = tenant)
      /\ c0.kind = "lookup" => c0.no <= asked
  BY <1>1, CallFields DEF CallTrue
<1>3. /\ calls' = calls \ {c0} /\ UNCHANGED <<tenant, tab, fields, asked, intakeClicks>>
  BY DEF ReceiveSearch, ReceiveSubmit, ReceiveSubmitSuccess, ReceiveLookup, Arrived,
         fieldVars, ghostVars
<1>4. /\ \A c \in calls' : CallTrue(c)'
      /\ OneCall("search")' /\ OneCall("submit")'
      /\ \A k \in {"search", "submit"} :
           (\E c \in calls' : c.kind = k) <=> k # c0.kind /\ \E c \in calls : c.kind = k
      /\ c0.kind # "lookup" =>
           ((\E c \in calls' : c.kind = "lookup") <=> \E c \in calls : c.kind = "lookup")
  BY <1>3, CallGone
<1>5. CASE ReceiveSearch(c0)
  <2>1. /\ c0.kind = "search" /\ searching' = FALSE
        /\ \/ suggestions' \in {c0.tenant, NoTenant} /\ Strays("suggestions", c0)
           \/ UNCHANGED <<suggestions, strayed>>
        /\ strayed' \subseteq strayed \cup {"suggestions"}
        /\ UNCHANGED <<tenant, tab, address, confirmed, success, found, fields, submitting,
                       checking, asked, known, intakeClicks>>
    BY <1>5 DEF ReceiveSearch, Arrived, Strays
  <2>2. IntakeFieldTypes'
    <3>1. FlagTypes'
      BY <1>2, <2>1 DEF IntakeFieldTypes, FlagTypes
    <3>2. FormTypes'
      BY <1>2, <2>1 DEF IntakeFieldTypes, FormTypes, TenantOrNone
    <3> QED BY <3>1, <3>2 DEF IntakeFieldTypes
  <2>3. ResultsAreAnswers'
    BY <1>4, <2>1 DEF IntakePageInv, ResultsAreAnswers
  <2>4. MunicipalitiesAgree' /\ CodeStaysVisible'
    BY <1>2, <2>1 DEF IntakePageInv, MunicipalitiesAgree, CodeStaysVisible, Strays
  <2> QED BY <1>4, <2>2, <2>3, <2>4, IntakeKept
<1>6. CASE ReceiveSubmitSuccess(c0)
  <2>1. /\ c0.kind = "submit"
        /\ submitting' = FALSE /\ success' = c0.tenant /\ known' = TRUE
        /\ address' = NoTenant /\ suggestions' = NoTenant /\ confirmed' = FALSE
        /\ strayed' = (strayed \ {"address", "suggestions"}) \cup
                      (IF c0.moved THEN {"success"} ELSE {})
        /\ UNCHANGED <<tenant, tab, found, fields, searching, checking, asked, intakeClicks>>
    BY <1>6 DEF ReceiveSubmitSuccess, Arrived
  <2>2. IntakeFieldTypes'
    <3>1. FlagTypes'
      BY <1>2, <2>1 DEF IntakeFieldTypes, FlagTypes
    <3>2. FormTypes'
      BY <1>2, <2>1 DEF IntakeFieldTypes, FormTypes, TenantOrNone
    <3> QED BY <3>1, <3>2 DEF IntakeFieldTypes
  <2>3. ResultsAreAnswers'
    BY <1>4, <2>1 DEF IntakePageInv, ResultsAreAnswers
  <2>4. MunicipalitiesAgree' /\ CodeStaysVisible'
    BY <1>2, <2>1 DEF IntakePageInv, MunicipalitiesAgree, CodeStaysVisible
  <2> QED BY <1>4, <2>2, <2>3, <2>4, IntakeKept
<1>7. CASE ReceiveSubmit(c0) /\ ~ReceiveSubmitSuccess(c0)
  <2>1. /\ c0.kind = "submit" /\ submitting' = FALSE
        /\ UNCHANGED <<tenant, tab, address, suggestions, confirmed, success, found, fields,
                       searching, checking, asked, known, strayed, intakeClicks>>
    BY <1>7 DEF ReceiveSubmit, Arrived, fieldVars, ghostVars
  <2>2. IntakeFieldTypes'
    <3>1. FlagTypes'
      BY <2>1 DEF IntakeFieldTypes, FlagTypes
    <3>2. FormTypes'
      BY <2>1 DEF IntakeFieldTypes, FormTypes
    <3> QED BY <3>1, <3>2 DEF IntakeFieldTypes
  <2>3. ResultsAreAnswers'
    BY <1>4, <2>1 DEF IntakePageInv, ResultsAreAnswers
  <2>4. MunicipalitiesAgree' /\ CodeStaysVisible'
    BY <2>1 DEF IntakePageInv, MunicipalitiesAgree, CodeStaysVisible
  <2> QED BY <1>4, <2>2, <2>3, <2>4, IntakeKept
<1>8. CASE ReceiveLookup(c0)
  <2>1. /\ c0.kind = "lookup" /\ checking' = FALSE
        /\ \/ /\ found' = [tenant |-> c0.tenant, no |-> c0.no, late |-> c0.no # asked]
              /\ Strays("found", c0)
           \/ UNCHANGED <<found, strayed>>
        /\ strayed' \subseteq strayed \cup {"found"}
        /\ UNCHANGED <<tenant, tab, address, suggestions, confirmed, success, fields,
                       submitting, searching, asked, known, intakeClicks>>
    BY <1>8 DEF ReceiveLookup, Arrived, Strays
  <2>5. found' = found \/ (found'.tenant = c0.tenant /\ found'.no = c0.no
                            /\ (c0.no # asked => found'.late))
    <3>1. PICK late \in BOOLEAN : late <=> c0.no # asked
      OBVIOUS
    <3>2. (c0.no # asked) = late
      BY <3>1
    <3>3. \/ found' = [tenant |-> c0.tenant, no |-> c0.no, late |-> late]
          \/ found' = found
      BY <2>1, <3>2
    <3> QED BY <3>1, <3>3
  <2>2. IntakeFieldTypes'
    <3>1. FlagTypes'
      BY <1>2, <2>1, <2>5 DEF IntakeFieldTypes, FlagTypes
    <3>2. FormTypes'
      BY <1>2, <2>1, <2>5 DEF IntakeFieldTypes, FormTypes, TenantOrNone
    <3> QED BY <3>1, <3>2 DEF IntakeFieldTypes
  <2>3. ResultsAreAnswers'
    BY <1>4, <2>1, <2>5 DEF IntakePageInv, ResultsAreAnswers
  <2>4. MunicipalitiesAgree' /\ CodeStaysVisible'
    BY <1>2, <2>1 DEF IntakePageInv, MunicipalitiesAgree, CodeStaysVisible, Strays
  <2> QED BY <1>4, <2>2, <2>3, <2>4, IntakeKept
<1> QED BY <1>5, <1>6, <1>7, <1>8

LEMMA IntakeStutter ==
  ASSUME IntakePageInv, UNCHANGED intakePageVars
  PROVE  IntakePageInv'
BY DEF intakePageVars, fieldVars, flagVars, ghostVars, IntakePageInv, IntakePageTypeOK,
       CallTrue, OneCall, MunicipalitiesAgree, CodeStaysVisible, ResultsAreAnswers

LEMMA IntakeStep ==
  ASSUME IntakePageInv, IntakePageNext \/ UNCHANGED intakePageVars
  PROVE  IntakePageInv'
BY QuietClick, SelectTenantKeeps, SearchAddressKeeps, SubmitCaseKeeps, LookupsKeep,
   AnswerCallKeeps, ReceivesKeep, IntakeStutter DEF IntakePageNext, Citizen

LEMMA IntakeBegins ==
  ASSUME IntakePageInit
  PROVE  IntakePageInv
<1> USE TenantsDiffer
<1>1. /\ tenant \in Tenants /\ tab = "submit"
      /\ submitting = FALSE /\ searching = FALSE /\ checking = FALSE
      /\ address = Typed /\ suggestions = NoTenant /\ confirmed = FALSE
      /\ success = NoTenant /\ fields = "empty"
      /\ asked = 0 /\ known = FALSE /\ strayed = {} /\ calls = {} /\ intakeClicks = 0
      /\ found.tenant = NoTenant /\ found.no = 0
  BY DEF IntakePageInit, Nowhere
<1>2. IntakePageTypeOK
  <2>1. FlagTypes
    BY <1>1 DEF FlagTypes
  <2>2. FormTypes
    BY <1>1 DEF FormTypes, TenantOrNone
  <2> QED BY <1>1, <2>1, <2>2 DEF IntakePageTypeOK, FlagTypes, FormTypes
<1>3. MunicipalitiesAgree /\ CodeStaysVisible /\ ResultsAreAnswers
  BY <1>1 DEF MunicipalitiesAgree, CodeStaysVisible, ResultsAreAnswers
<1> QED BY <1>1, <1>2, <1>3 DEF IntakePageInv, OneCall

-----------------------------------------------------------------------------
(* The staff pages: their steps.                                           *)

At(q, code, seen) == [q EXCEPT !.code = code, !.seen = seen]
AtMade(q, code, seen) == [q EXCEPT !.code = code, !.seen = seen, !.made = TRUE]

LEMMA AskFields ==
  ASSUME NEW q \in AskRecord
  PROVE  /\ q.what \in AskKinds
         /\ q.filter \in Filters /\ q.no \in Nat /\ q.code \in AskCodes
         /\ q.seen \in Nat /\ q.chain \in BOOLEAN /\ q.made \in BOOLEAN
BY DEF AskRecord

LEMMA AnsweredAsk ==
  ASSUME NEW q \in AskRecord, NEW code \in AskCodes, NEW seen \in Nat
  PROVE  /\ At(q, code, seen) \in AskRecord /\ At(q, code, seen).what = q.what
         /\ At(q, code, seen).filter = q.filter /\ At(q, code, seen).no = q.no
         /\ At(q, code, seen).chain = q.chain /\ At(q, code, seen).made = q.made
         /\ At(q, code, seen).code = code /\ At(q, code, seen).seen = seen
<1> DEFINE later == [q EXCEPT !.code = code, !.seen = seen]
<1>1. later \in AskRecord
  BY DEF AskRecord
<1>2. /\ later.what = q.what /\ later.filter = q.filter /\ later.no = q.no
      /\ later.chain = q.chain /\ later.made = q.made
      /\ later.code = code /\ later.seen = seen
  BY DEF AskRecord
<1> QED BY <1>1, <1>2 DEF At

LEMMA MadeAsk ==
  ASSUME NEW q \in AskRecord, NEW code \in AskCodes, NEW seen \in Nat
  PROVE  /\ AtMade(q, code, seen) \in AskRecord /\ AtMade(q, code, seen).what = q.what
         /\ AtMade(q, code, seen).filter = q.filter /\ AtMade(q, code, seen).no = q.no
         /\ AtMade(q, code, seen).chain = q.chain /\ AtMade(q, code, seen).made
         /\ AtMade(q, code, seen).code = code /\ AtMade(q, code, seen).seen = seen
<1> DEFINE later == [q EXCEPT !.code = code, !.seen = seen, !.made = TRUE]
<1>1. later \in AskRecord
  BY DEF AskRecord
<1>2. /\ later.what = q.what /\ later.filter = q.filter /\ later.no = q.no
      /\ later.chain = q.chain /\ later.made = TRUE
      /\ later.code = code /\ later.seen = seen
  BY DEF AskRecord
<1> QED BY <1>1, <1>2 DEF AtMade

LEMMA NewAsk ==
  ASSUME NEW what \in AskKinds,
         NEW filter \in Filters, NEW no \in Nat
  PROVE  /\ Query(what, filter, no) \in AskRecord /\ Query(what, filter, no).what = what
         /\ Query(what, filter, no).filter = filter /\ Query(what, filter, no).no = no
         /\ ~Query(what, filter, no).chain /\ ~Query(what, filter, no).made
         /\ Query(what, filter, no).code = 0 /\ Query(what, filter, no).seen = 0
BY DEF Query, AskRecord, AskCodes

\* The load that ends a rebuild.
LEMMA NewChainAsk ==
  ASSUME NEW filter \in Filters, NEW no \in Nat
  PROVE  \E new \in AskRecord :
           /\ new = [Query("list", filter, no) EXCEPT !.chain = TRUE]
           /\ new.what = "list" /\ new.filter = filter /\ new.no = no
           /\ new.chain /\ ~new.made /\ new.code = 0 /\ new.seen = 0
<1>1. PICK base : base = Query("list", filter, no)
  OBVIOUS
<1>2. /\ base \in AskRecord /\ base.what = "list" /\ base.filter = filter /\ base.no = no
      /\ ~base.made /\ base.code = 0 /\ base.seen = 0
  BY <1>1, NewAsk DEF AskKinds
<1> DEFINE new == [base EXCEPT !.chain = TRUE]
<1>3. new \in AskRecord
  BY <1>2 DEF AskRecord
<1>4. /\ new.what = base.what /\ new.filter = base.filter /\ new.no = base.no
      /\ new.chain = TRUE /\ new.made = base.made /\ new.code = base.code
      /\ new.seen = base.seen
  BY <1>2 DEF AskRecord
<1> QED BY <1>1, <1>2, <1>3, <1>4

LEMMA PageAskKinds ==
  ASSUME NEW kind
  PROVE  /\ PageAsks(kind) \subseteq AskKinds
         /\ "list" \in PageAsks(kind) <=> kind # "privacy"
         /\ "aggregate" \in PageAsks(kind) <=> kind = "analytics"
         /\ \A what \in {"status", "policy"} \cup OfficerCalls :
              what \in PageAsks(kind) <=> kind = "privacy"
         /\ "list" \notin OfficerCalls /\ "aggregate" \notin OfficerCalls
         /\ "status" \notin OfficerCalls /\ "policy" \notin OfficerCalls
         /\ "update" \in OfficerCalls
BY DEF PageAsks, OfficerCalls, AskKinds

LEMMA AsksOf ==
  ASSUME StaffPagesInv, NEW q \in asks
  PROVE  /\ AskTrue(q) /\ q \in AskRecord /\ q.what \in PageAsks(pageKind)
         /\ q.no <= staffClicks /\ q.seen <= data
         /\ q.what \in AskKinds
         /\ q.filter \in Filters /\ q.no \in Nat /\ q.code \in AskCodes
         /\ q.seen \in Nat /\ q.chain \in BOOLEAN /\ q.made \in BOOLEAN
BY AskFields DEF StaffPagesInv, AskTrue

\* A query is added for a click; it is a list, or the only call that keeps the
\* buttons disabled.
LEMMA AskAdded ==
  ASSUME StaffPagesInv, NEW what \in PageAsks(pageKind) \ {"status", "policy"},
         NEW filter \in Filters, staffClicks' = staffClicks + 1,
         UNCHANGED <<pageKind, data, own, unreported>>,
         asks' = asks \cup {Query(what, filter, staffClicks')},
         \/ wanted' = wanted
         \/ wanted' = [filter |-> filter, no |-> staffClicks'] /\ own = 0,
         what = "list" \/ \A q \in asks : ~Working(q)
  PROVE  /\ \A q \in asks' : AskTrue(q)'
         /\ OnlyAsks'
         /\ (Made => Made')
         /\ (\E q \in asks' : Working(q)) <=> (what # "list" \/ \E q \in asks : Working(q))
         /\ \E new \in asks' : new.what = what /\ new.no = staffClicks'
<1>1. StaffFields /\ staffClicks \in Nat /\ own \in Nat /\ data \in Nat /\ staffClicks' \in Nat
      /\ wanted.no \in Nat /\ wanted.no <= staffClicks
  BY DEF StaffPagesInv, StaffFields
<1>2. PICK new : new = Query(what, filter, staffClicks')
  OBVIOUS
<1>3. /\ new \in AskRecord /\ new.what = what /\ new.filter = filter
      /\ new.no = staffClicks' /\ new.code = 0 /\ new.seen = 0 /\ ~new.chain /\ ~new.made
  <2>1. what \in AskKinds
    BY PageAskKinds
  <2> QED BY <1>1, <1>2, <2>1, NewAsk
<1>4. asks' = asks \cup {new}
  BY <1>2
<1>5. wanted' = wanted \/ (wanted'.filter = filter /\ wanted'.no = staffClicks')
  OBVIOUS
<1>6. Made => Made'
  BY <1>4 DEF Made
<1>7. AskTrue(new)'
  <2>1. new.no = wanted'.no => new.filter = wanted'.filter
    BY <1>1, <1>3, <1>5
  <2> QED BY <1>1, <1>3, <2>1 DEF AskTrue
<1>8. ASSUME NEW q \in asks
      PROVE  AskTrue(q)'
  <2>1. AskTrue(q) /\ q.no \in Nat /\ q.no <= staffClicks /\ q.seen \in Nat
    BY AsksOf
  <2>2. q.no = wanted'.no => wanted' = wanted
    BY <1>1, <1>5, <2>1
  <2>3. q.no <= staffClicks'
    BY <1>1, <2>1
  <2>4. wanted' = wanted => wanted'.no = wanted.no /\ wanted'.filter = wanted.filter
    OBVIOUS
  <2>5. q.what = "list" /\ q.code = 200 /\ q.no = wanted'.no =>
          \/ q.seen >= own \/ unreported \/ Made'
    BY <1>1, <1>6, <2>1, <2>2, <2>4 DEF AskTrue
  <2>6. q.no = wanted'.no => q.filter = wanted'.filter
    BY <2>1, <2>2, <2>4 DEF AskTrue
  <2>7. AskTrue(q)' <=>
          /\ q \in AskRecord /\ q.what \in PageAsks(pageKind') /\ q.no <= staffClicks'
          /\ q.seen <= data'
          /\ q.no = wanted'.no => q.filter = wanted'.filter
          /\ q.what = "list" /\ q.code = 200 /\ q.no = wanted'.no =>
               \/ q.seen >= own' \/ unreported' \/ Made'
          /\ q.chain => q.what = "list"
          /\ q.made => q.what \in ChangingCalls
          /\ q.what \in ChangingCalls /\ q.code = 200 => q.made
          /\ q.what = "update" /\ q.code = 200 => q.seen >= own'
          /\ q.what \in {"status", "policy"} => own' = 0
    BY DEF AskTrue
  <2> QED BY <2>1, <2>3, <2>5, <2>6, <2>7 DEF AskTrue
<1>9. OnlyAsks'
  <2>1. OnlyAsks
    BY DEF StaffPagesInv
  <2>2. \A q \in asks : q.no # staffClicks'
    BY <1>1, AsksOf
  <2>3. Working(new) => what # "list"
    BY <1>3 DEF Working
  <2> QED BY <1>3, <1>4, <2>1, <2>2, <2>3 DEF OnlyAsks
<1>10. Working(new) <=> what # "list"
  BY <1>3 DEF Working
<1> QED BY <1>3, <1>4, <1>6, <1>7, <1>8, <1>9, <1>10

LEMMA StaffFacts ==
  ASSUME StaffPagesInv
  PROVE  /\ StaffFlags /\ StaffFields /\ OnlyAsks /\ BusyTrue /\ ListComes /\ OwnComes
         /\ staffClicks \in Nat /\ own \in Nat /\ data \in Nat /\ own <= data
         /\ wanted.no \in Nat /\ wanted.no <= staffClicks /\ wanted.filter \in Filters
         /\ list.seen \in Nat /\ list.seen <= data /\ pageKind \in Kinds
BY DEF StaffPagesInv, StaffFields

LEMMA ListClick ==
  ASSUME StaffPagesInv, pageKind \in {"cases", "audit"}, ~away,
         NEW filter \in Filters, AskList(filter), draft' \in Filters, failed' \in BOOLEAN,
         staffClicks' = staffClicks + 1,
         UNCHANGED <<pageKind, list, busy, away, data, own, unreported>>
  PROVE  StaffPagesInv'
<1>1. own = 0 /\ "list" \in PageAsks(pageKind)
  BY StaffFacts DEF StaffFields, PageAsks
<1>2. /\ asks' = asks \cup {Query("list", filter, staffClicks')}
      /\ wanted' = [filter |-> filter, no |-> staffClicks'] /\ missed' = FALSE
  BY DEF AskList
<1>3. /\ (\A q \in asks' : AskTrue(q)') /\ OnlyAsks'
      /\ (\E q \in asks' : Working(q)) <=> \E q \in asks : Working(q)
      /\ \E new \in asks' : new.what = "list" /\ new.no = staffClicks'
  BY <1>1, <1>2, AskAdded
<1>4. StaffFlags'
  BY <1>2, StaffFacts DEF StaffFlags
<1>5. StaffFields'
  BY <1>2, StaffFacts DEF StaffFields
<1>6. BusyTrue'
  BY <1>3, StaffFacts DEF BusyTrue
<1>7. WantedComes'
  BY <1>2, <1>3 DEF WantedComes
<1> QED BY <1>3, <1>4, <1>5, <1>6, <1>7 DEF StaffPagesInv, ListComes, OwnComes

LEMMA CallClick ==
  ASSUME StaffPagesInv, NEW what \in PageAsks(pageKind) \ {"list", "status", "policy"},
         ~away, ~busy, busy' = TRUE, failed' = FALSE, staffClicks' = staffClicks + 1,
         asks' = asks \cup {Query(what, draft, staffClicks')},
         UNCHANGED <<pageKind, draft, list, away, data, wanted, own, missed, unreported>>
  PROVE  StaffPagesInv'
<1>1. \A q \in asks : ~Working(q)
  BY StaffFacts DEF BusyTrue
<1>2. draft \in Filters
  BY StaffFacts DEF StaffFields
<1>3. /\ (\A q \in asks' : AskTrue(q)') /\ OnlyAsks' /\ (Made => Made')
      /\ \E q \in asks' : Working(q)
  BY <1>1, <1>2, AskAdded
<1>4. StaffFlags'
  BY StaffFacts DEF StaffFlags
<1>5. StaffFields'
  BY StaffFacts DEF StaffFields
<1>6. BusyTrue'
  BY <1>3 DEF BusyTrue
<1>7. WantedComes => WantedComes'
  BY DEF WantedComes
<1>8. ListComes' /\ OwnComes'
  BY <1>3, <1>7, StaffFacts DEF ListComes, OwnComes
<1> QED BY <1>3, <1>4, <1>5, <1>6, <1>8 DEF StaffPagesInv

LEMMA StaffClicksKeep ==
  ASSUME StaffPagesInv,
         \/ \E f \in Filters : ChooseFilter(f)
         \/ ApplyFilters \/ ClearFilters \/ Aggregate
         \/ \E what \in OfficerCalls : CallPrivacy(what)
  PROVE  StaffPagesInv'
<1>1. StaffFlags /\ draft \in Filters
  BY StaffFacts DEF StaffFields
<1>2. ASSUME NEW f \in Filters, ChooseFilter(f)
      PROVE  StaffPagesInv'
  BY <1>1, <1>2, ListClick DEF ChooseFilter, ClickOn, StaffFlags
<1>3. CASE ApplyFilters
  BY <1>1, <1>3, ListClick DEF ApplyFilters, ClickOn
<1>4. CASE ClearFilters
  BY <1>4, ListClick, StaffPagesAssumption DEF ClearFilters, ClickOn
<1>5. CASE Aggregate
  <2>1. pageKind = "analytics" /\ "aggregate" \in PageAsks(pageKind)
    BY <1>5 DEF Aggregate, ClickOn, PageAsks
  <2> QED BY <1>5, <2>1, CallClick DEF Aggregate, ClickOn
<1>6. ASSUME NEW what \in OfficerCalls, CallPrivacy(what)
      PROVE  StaffPagesInv'
  <2>1. what \in PageAsks(pageKind) \ {"list", "status", "policy"}
    BY <1>6 DEF CallPrivacy, ClickOn, PageAsks, OfficerCalls
  <2> QED BY <1>6, <2>1, CallClick DEF CallPrivacy, ClickOn
<1> QED BY <1>2, <1>3, <1>4, <1>5, <1>6

\* The asks and what is known of them depend on nothing else.
LEMMA AsksStay ==
  ASSUME StaffPagesInv, UNCHANGED <<pageKind, wanted, own, unreported, asks>>,
         staffClicks' \in Nat, staffClicks <= staffClicks', data' \in Nat, data <= data'
  PROVE  /\ \A q \in asks' : AskTrue(q)'
         /\ OnlyAsks' /\ (Made' <=> Made) /\ (WantedComes' <=> WantedComes)
<1>1. (Made' <=> Made) /\ (WantedComes' <=> WantedComes)
  BY DEF Made, WantedComes
<1>2. ASSUME NEW q \in asks
      PROVE  AskTrue(q)'
  <2>1. /\ AskTrue(q) /\ q.no \in Nat /\ q.no <= staffClicks /\ q.seen \in Nat
        /\ q.seen <= data
    BY AsksOf
  <2>2. q.no <= staffClicks' /\ q.seen <= data'
    BY <2>1, StaffFacts
  <2> QED BY <1>1, <2>1, <2>2 DEF AskTrue
<1> QED BY <1>1, <1>2, StaffFacts DEF OnlyAsks

LEMMA QuietStaffStep ==
  ASSUME StaffPagesInv,
         OthersRebuild \/ (\E f \in Filters : EditFilter(f)) \/ UNCHANGED staffVars
  PROVE  StaffPagesInv'
<1>1. /\ UNCHANGED <<pageKind, list, failed, busy, away, wanted, own, missed, unreported, asks>>
      /\ draft' = draft \/ draft' \in Filters
      /\ staffClicks' \in {staffClicks, staffClicks + 1} /\ data' \in {data, data + 1}
  BY DEF OthersRebuild, EditFilter, ClickOn, staffVars
<1>2. /\ staffClicks' \in Nat /\ staffClicks <= staffClicks'
      /\ data' \in Nat /\ data <= data'
  BY <1>1, StaffFacts
<1>3. /\ (\A q \in asks' : AskTrue(q)') /\ OnlyAsks'
      /\ (Made' <=> Made) /\ (WantedComes' <=> WantedComes)
  BY <1>1, <1>2, AsksStay
<1>4. StaffFields'
  BY <1>1, <1>2, StaffFacts DEF StaffFields
<1>5. StaffFlags' /\ BusyTrue'
  BY <1>1, StaffFacts DEF StaffFlags, BusyTrue
<1>6. ListComes' /\ OwnComes'
  BY <1>1, <1>3, StaffFacts DEF ListComes, OwnComes
<1> QED BY <1>3, <1>4, <1>5, <1>6 DEF StaffPagesInv

\* The API answers without having done what was asked.
LEMMA AskMarked ==
  ASSUME NEW q \in AskRecord, NEW code \in AskCodes
  PROVE  \E later \in AskRecord :
           /\ later = [q EXCEPT !.code = code]
           /\ later.what = q.what /\ later.filter = q.filter /\ later.no = q.no
           /\ later.chain = q.chain /\ later.made = q.made
           /\ later.code = code /\ later.seen = q.seen
<1> DEFINE later == [q EXCEPT !.code = code]
<1>1. later \in AskRecord
  BY DEF AskRecord
<1>2. /\ later.what = q.what /\ later.filter = q.filter /\ later.no = q.no
      /\ later.chain = q.chain /\ later.made = q.made
      /\ later.code = code /\ later.seen = q.seen
  BY DEF AskRecord
<1> QED BY <1>1, <1>2

\* The ways of the API to answer q0 with later: a change is made, something else
\* is done, or nothing is.
AnsweredWith(q0, later) ==
  /\ asks' = (asks \ {q0}) \cup {later} /\ later.code \in {1, 200, 401, 500}
  /\ later.what = q0.what /\ later.filter = q0.filter /\ later.no = q0.no
  /\ later.chain = q0.chain /\ later.seen <= data'
  /\ \/ /\ q0.what \in ChangingCalls /\ later.made
        /\ data' = data + 1 /\ own' = data' /\ later.seen = own'
     \/ /\ q0.what \notin ChangingCalls /\ UNCHANGED <<data, own>>
        /\ later.seen = data /\ later.made = q0.made
     \/ later.code # 200 /\ UNCHANGED <<data, own>> /\ later.made = q0.made

LEMMA WaysToAnswer ==
  ASSUME StaffPagesInv, NEW q0 \in asks, AnswerAsk(q0)
  PROVE  \E later \in AskRecord : AnsweredWith(q0, later)
<1>1. /\ q0 \in AskRecord /\ q0.code = 0 /\ q0.seen \in Nat /\ q0.seen <= data
      /\ data \in Nat /\ own <= data
  BY AsksOf, StaffFacts DEF AnswerAsk
<1>2. CASE /\ q0.what \in ChangingCalls
           /\ data' = data + 1 /\ own' = data'
           /\ \E code \in {1, 200, 500} :
                asks' = (asks \ {q0})
                  \cup {[q0 EXCEPT !.code = code, !.seen = data', !.made = TRUE]}
  <2>1. PICK code \in {1, 200, 500} :
          asks' = (asks \ {q0})
            \cup {[q0 EXCEPT !.code = code, !.seen = data', !.made = TRUE]}
    BY <1>2
  <2>2. data' \in Nat /\ asks' = (asks \ {q0}) \cup {AtMade(q0, code, data')}
    BY <1>1, <1>2, <2>1 DEF AtMade
  <2>3. PICK seen \in Nat : seen = data'
    BY <2>2
  <2>4. PICK later : later = AtMade(q0, code, seen)
    OBVIOUS
  <2>5. /\ later \in AskRecord /\ later.what = q0.what /\ later.filter = q0.filter
        /\ later.no = q0.no /\ later.chain = q0.chain /\ later.made
        /\ later.code = code /\ later.seen = seen
    <3>1. code \in AskCodes
      BY <2>1 DEF AskCodes
    <3>2. q0 \in AskRecord
      BY <1>1
    <3>3. /\ AtMade(q0, code, seen) \in AskRecord /\ AtMade(q0, code, seen).what = q0.what
          /\ AtMade(q0, code, seen).filter = q0.filter
          /\ AtMade(q0, code, seen).no = q0.no
          /\ AtMade(q0, code, seen).chain = q0.chain /\ AtMade(q0, code, seen).made
          /\ AtMade(q0, code, seen).code = code /\ AtMade(q0, code, seen).seen = seen
      BY <3>1, <3>2, MadeAsk
    <3> QED BY <2>4, <3>3
  <2> QED BY <1>1, <1>2, <2>1, <2>2, <2>3, <2>4, <2>5 DEF AnsweredWith
<1>3. CASE /\ q0.what \notin ChangingCalls
           /\ asks' = (asks \ {q0}) \cup {[q0 EXCEPT !.code = 200, !.seen = data]}
           /\ UNCHANGED <<data, own>>
  <2>1. PICK code \in AskCodes, seen \in Nat : code = 200 /\ seen = data
    BY <1>1 DEF AskCodes
  <2>2. PICK later : later = At(q0, code, seen)
    OBVIOUS
  <2>3. /\ later \in AskRecord /\ later.what = q0.what /\ later.filter = q0.filter
        /\ later.no = q0.no /\ later.chain = q0.chain /\ later.made = q0.made
        /\ later.code = code /\ later.seen = seen
    BY <1>1, <2>2, AnsweredAsk
  <2>4. asks' = (asks \ {q0}) \cup {later}
    BY <1>3, <2>1, <2>2 DEF At
  <2> QED BY <1>1, <1>3, <2>1, <2>3, <2>4 DEF AnsweredWith
<1>4. CASE /\ \E code \in {1, 401, 500} :
                asks' = (asks \ {q0}) \cup {[q0 EXCEPT !.code = code]}
           /\ UNCHANGED <<data, own>>
  <2>1. PICK code \in {1, 401, 500} : asks' = (asks \ {q0}) \cup {[q0 EXCEPT !.code = code]}
    BY <1>4
  <2>2. PICK later \in AskRecord :
          /\ later = [q0 EXCEPT !.code = code]
          /\ later.what = q0.what /\ later.filter = q0.filter /\ later.no = q0.no
          /\ later.chain = q0.chain /\ later.made = q0.made
          /\ later.code = code /\ later.seen = q0.seen
    <3>1. code \in AskCodes
      BY <2>1 DEF AskCodes
    <3> QED BY <1>1, <3>1, AskMarked
  <2>3. /\ asks' = (asks \ {q0}) \cup {later} /\ later.code \in {1, 200, 401, 500}
        /\ later.seen <= data' /\ later.code # 200
    BY <1>1, <1>4, <2>1, <2>2
  <2> QED BY <1>4, <2>2, <2>3 DEF AnsweredWith
<1> QED BY <1>2, <1>3, <1>4 DEF AnswerAsk

LEMMA AnswerAskKeeps ==
  ASSUME StaffPagesInv, NEW q0 \in asks, AnswerAsk(q0)
  PROVE  StaffPagesInv'
<1>1. PICK later \in AskRecord : AnsweredWith(q0, later)
  BY WaysToAnswer
<1>2. /\ UNCHANGED <<pageKind, draft, list, failed, busy, away, wanted, missed, unreported,
                     staffClicks>>
      /\ q0.code = 0
  BY DEF AnswerAsk
<1>3. PICK code, seen, made : code = later.code /\ seen = later.seen /\ made = later.made
  OBVIOUS
<1>4. /\ later \in AskRecord /\ later.what = q0.what /\ later.filter = q0.filter
      /\ later.no = q0.no /\ later.chain = q0.chain
      /\ later.made = made /\ later.code = code /\ later.seen = seen /\ seen \in Nat
  <2>1. later.seen \in Nat
    BY AskFields
  <2> QED BY <1>1, <1>3, <2>1 DEF AnsweredWith
<1>5. /\ AskTrue(q0) /\ q0.what \in PageAsks(pageKind) /\ q0.no \in Nat /\ q0.no <= staffClicks
      /\ data \in Nat /\ own \in Nat /\ own <= data
  BY AsksOf, StaffFacts
<1>16. /\ seen <= data' /\ code \in {1, 200, 401, 500}
       /\ \/ /\ q0.what \in ChangingCalls /\ made
             /\ data' = data + 1 /\ own' = data' /\ seen = own'
          \/ /\ q0.what \notin ChangingCalls /\ UNCHANGED <<data, own>>
             /\ seen = data /\ made = q0.made
          \/ code # 200 /\ UNCHANGED <<data, own>> /\ made = q0.made
  BY <1>1, <1>3 DEF AnsweredWith
<1>6. /\ own' \in Nat /\ data' \in Nat /\ own' <= data' /\ data <= data' /\ own <= own'
      /\ own' # own => q0.what \in ChangingCalls /\ made
      /\ made => q0.what \in ChangingCalls
  BY <1>5, <1>16 DEF AskTrue
<1>7. asks' = (asks \ {q0}) \cup {later}
  BY <1>1 DEF AnsweredWith
<1>8. (Made => Made') /\ (made => Made')
  <2>1. q0.made => made
    BY <1>16
  <2> QED BY <1>4, <1>7, <2>1 DEF Made
<1>9. AskTrue(later)'
  <2>1. q0.no = wanted.no => q0.filter = wanted.filter
    BY <1>5 DEF AskTrue
  <2>2. q0.what \in {"status", "policy"} => own' = 0
    <3>1. q0.what \in {"status", "policy"} => own = 0 /\ q0.what \notin ChangingCalls
      BY <1>5 DEF AskTrue, ChangingCalls
    <3> QED BY <1>16, <3>1
  <2>3. code = 200 => seen >= own'
    BY <1>5, <1>16
  <2>4. q0.what \in ChangingCalls /\ code = 200 => made
    BY <1>16
  <2>5. q0.chain => q0.what = "list"
    BY <1>5 DEF AskTrue
  <2> QED BY <1>2, <1>4, <1>5, <1>6, <1>16, <2>1, <2>2, <2>3, <2>4, <2>5 DEF AskTrue
<1>10. ASSUME NEW q \in asks, q # q0
       PROVE  AskTrue(q)'
  <2>1. /\ AskTrue(q) /\ q.what \in PageAsks(pageKind) /\ q.no \in Nat /\ q.seen \in Nat
        /\ q.seen <= data
    BY AsksOf
  <2>2. own' # own => q.what = "list"
    BY <1>6, <1>10, StaffFacts DEF OnlyAsks, Working, ChangingCalls
  <2>3. q.seen <= data'
    BY <1>5, <1>6, <2>1
  <2>4. CASE own' = own
    BY <1>2, <1>8, <2>1, <2>3, <2>4 DEF AskTrue
  <2>5. CASE own' # own
    BY <1>2, <1>6, <1>8, <2>1, <2>2, <2>3, <2>5 DEF AskTrue, ChangingCalls
  <2> QED BY <2>4, <2>5
<1>17. Working(later) <=> Working(q0)
  BY <1>4 DEF Working
<1>11. OnlyAsks'
  BY <1>4, <1>7, <1>17, StaffFacts DEF OnlyAsks
<1>12. StaffFlags' /\ BusyTrue'
  BY <1>2, <1>7, <1>17, StaffFacts DEF StaffFlags, BusyTrue
<1>13. StaffFields'
  <2>1. ~away
    BY StaffFacts DEF StaffFields
  <2>2. pageKind \in {"cases", "audit"} => own' = own
    <3>1. "update" \in PageAsks(pageKind) => pageKind = "privacy"
      BY PageAskKinds DEF OfficerCalls
    <3> QED BY <1>5, <1>6, <3>1, PageAskKinds DEF ChangingCalls
  <2>3. list.seen <= data'
    BY <1>6, StaffFacts
  <2> QED BY <1>2, <1>6, <2>1, <2>2, <2>3, StaffFacts DEF StaffFields
<1>14. WantedComes => WantedComes'
  BY <1>2, <1>4, <1>7 DEF WantedComes
<1>15. ListComes' /\ OwnComes'
  BY <1>2, <1>6, <1>8, <1>14, StaffFacts DEF ListComes, OwnComes
<1> QED BY <1>7, <1>9, <1>10, <1>11, <1>12, <1>13, <1>15 DEF StaffPagesInv

\* Asks are gone, and a change whose answer is gone was reported or not.
LEMMA AsksGone ==
  ASSUME StaffPagesInv, asks' \in SUBSET asks, unreported => unreported',
         UNCHANGED <<pageKind, wanted, data, own, staffClicks>>,
         Made => Made' \/ unreported'
  PROVE  (\A q \in asks' : AskTrue(q)') /\ OnlyAsks'
<1>1. ASSUME NEW q \in asks'
      PROVE  AskTrue(q)'
  <2>1. AskTrue(q)
    BY AsksOf
  <2> QED BY <2>1 DEF AskTrue
<1> QED BY <1>1, StaffFacts DEF OnlyAsks

LEMMA StaffPageLeft ==
  ASSUME StaffPagesInv, NEW q0 \in asks, LeaveStaffPage(q0)
  PROVE  StaffPagesInv'
<1>1. /\ asks' = {} /\ away' = TRUE
      /\ UNCHANGED <<pageKind, draft, list, failed, busy, data, wanted, own, missed, unreported,
                     staffClicks>>
  BY DEF LeaveStaffPage
<1>2. StaffFlags' /\ StaffFields'
  BY <1>1, StaffFacts DEF StaffFlags, StaffFields
<1>3. (\A q \in asks' : AskTrue(q)') /\ OnlyAsks' /\ BusyTrue' /\ ListComes' /\ OwnComes'
  BY <1>1 DEF OnlyAsks, BusyTrue, ListComes, OwnComes
<1> QED BY <1>2, <1>3 DEF StaffPagesInv

\* The flag of a page is released with the load that ends the rebuild.
LEMMA ListReceived ==
  ASSUME StaffPagesInv, NEW q0 \in asks, ReceiveList(q0)
  PROVE  StaffPagesInv'
<1>1. /\ q0.what = "list" /\ asks' = asks \ {q0}
      /\ UNCHANGED <<pageKind, draft, away, data, wanted, own, unreported, staffClicks>>
      /\ busy' = (busy /\ ~q0.chain)
  BY DEF ReceiveList, ShowList, Got
<1>2. /\ AskTrue(q0) /\ q0.filter \in Filters /\ q0.no \in Nat /\ q0.seen \in Nat
      /\ q0.seen <= data /\ ~away
  BY AsksOf, StaffFacts DEF StaffFields
<1>3. Made => Made'
  <2>1. ~q0.made
    BY <1>1, <1>2 DEF AskTrue, ChangingCalls
  <2> QED BY <1>1, <2>1 DEF Made
<1>4. /\ missed' \in BOOLEAN /\ failed' \in BOOLEAN /\ busy' \in BOOLEAN
  BY StaffFacts DEF ReceiveList, ShowList, StaffFlags
<1>5. (\A q \in asks' : AskTrue(q)') /\ OnlyAsks'
  BY <1>1, <1>3, AsksGone
<1>6. StaffFlags'
  BY <1>1, <1>4, StaffFacts DEF StaffFlags
<1>7. /\ list' \in [filter : Filters, no : Nat, seen : Nat] /\ list'.seen <= data
      /\ list' = list \/ (list'.filter = q0.filter /\ list'.no = q0.no /\ list'.seen = q0.seen)
  BY <1>2, StaffFacts DEF ReceiveList, ShowList, StaffFields
<1>8. StaffFields'
  BY <1>1, <1>2, <1>7, StaffFacts DEF StaffFields
<1>9. BusyTrue'
  <2>1. busy <=> \E q \in asks : Working(q)
    BY <1>2, StaffFacts DEF BusyTrue
  <2>2. Working(q0) <=> q0.chain
    BY <1>1 DEF Working
  <2>3. CASE q0.chain
    BY <1>1, <2>2, <2>3, StaffFacts DEF BusyTrue, OnlyAsks
  <2>4. CASE ~q0.chain
    BY <1>1, <2>1, <2>2, <2>4 DEF BusyTrue
  <2> QED BY <2>3, <2>4
<1>10. missed => missed'
  BY DEF ReceiveList, ShowList
<1>11. CASE q0.code = 200
  <2>1. /\ list'.filter = q0.filter /\ list'.seen = q0.seen
        /\ WantedComes \/ missed'
    <3>1. /\ list' = [filter |-> q0.filter, no |-> q0.no, seen |-> q0.seen]
          /\ missed' = (missed \/ \A a \in asks : a.what = "list" => a.no # wanted.no)
      BY <1>11 DEF ReceiveList, ShowList
    <3>2. WantedComes \/ missed'
      BY <3>1 DEF WantedComes
    <3> QED BY <3>1, <3>2
  <2>2. CASE q0.no = wanted.no
    <3>1. q0.filter = wanted.filter /\ (q0.seen >= own \/ unreported \/ Made)
      BY <1>1, <1>2, <1>11, <2>2 DEF AskTrue
    <3>2. ListComes' /\ OwnComes'
      BY <1>1, <1>3, <2>1, <3>1 DEF ListComes, OwnComes
    <3> QED BY <1>5, <1>6, <1>8, <1>9, <3>2 DEF StaffPagesInv
  <2>3. CASE q0.no # wanted.no
    <3>1. WantedComes' \/ missed'
      BY <1>1, <2>1, <2>3 DEF WantedComes
    <3>2. ListComes' /\ OwnComes'
      BY <3>1 DEF ListComes, OwnComes
    <3> QED BY <1>5, <1>6, <1>8, <1>9, <3>2 DEF StaffPagesInv
  <2> QED BY <2>2, <2>3
<1>12. CASE q0.code # 200
  <2>1. list' = list /\ (q0.no = wanted.no => missed')
    BY <1>12 DEF ReceiveList, ShowList
  <2>2. WantedComes => WantedComes' \/ missed'
    BY <1>1, <2>1 DEF WantedComes
  <2>3. ListComes' /\ OwnComes'
    BY <1>1, <1>3, <1>10, <2>1, <2>2, StaffFacts DEF ListComes, OwnComes
  <2> QED BY <1>5, <1>6, <1>8, <1>9, <2>3 DEF StaffPagesInv
<1> QED BY <1>11, <1>12

\* On the page of the privacy officer nothing else is on its way.
LEMMA PrivacyAlone ==
  ASSUME StaffPagesInv, NEW q0 \in asks, q0.what \in {"status", "policy"} \cup OfficerCalls
  PROVE  pageKind = "privacy" /\ asks = {q0} /\ ~away /\ Working(q0) /\ ~WantedComes
<1>1. pageKind = "privacy"
  BY AsksOf, PageAskKinds
<1>2. \A q \in asks : q.what # "list" /\ Working(q)
  BY <1>1, AsksOf, PageAskKinds DEF Working
<1>3. asks = {q0}
  BY <1>2, StaffFacts DEF OnlyAsks
<1> QED BY <1>1, <1>2, <1>3, StaffFacts DEF StaffFields, WantedComes

LEMMA OfficerAnswered ==
  ASSUME StaffPagesInv, NEW q0 \in asks, ReceiveOfficerAnswer(q0)
  PROVE  StaffPagesInv'
<1>1. /\ q0.what \in {"policy"} \cup OfficerCalls /\ q0.code \in {1, 200, 500}
      /\ busy' = FALSE /\ asks' = asks \ {q0}
      /\ unreported' = (IF q0.made THEN q0.code # 200 ELSE unreported)
      /\ UNCHANGED <<pageKind, draft, away, data, wanted, own, missed, staffClicks>>
  BY DEF ReceiveOfficerAnswer, Told
<1>2. pageKind = "privacy" /\ asks = {q0} /\ ~WantedComes /\ ~away
  BY <1>1, PrivacyAlone
<1>3. asks' = {}
  BY <1>1, <1>2
<1>4. failed' \in BOOLEAN /\ unreported' \in BOOLEAN
  BY <1>1, StaffFacts DEF ReceiveOfficerAnswer, StaffFlags
<1>5. StaffFlags'
  BY <1>1, <1>4, StaffFacts DEF StaffFlags
<1>6. list' \in [filter : Filters, no : Nat, seen : Nat] /\ list'.seen <= data
  <2>1. q0.seen \in Nat /\ q0.seen <= data
    BY AsksOf
  <2> QED BY <2>1, StaffFacts DEF ReceiveOfficerAnswer, StaffFields
<1>7. StaffFields'
  BY <1>1, <1>3, <1>6, StaffFacts DEF StaffFields
<1>8. (\A q \in asks' : AskTrue(q)') /\ OnlyAsks' /\ BusyTrue' /\ ListComes'
  BY <1>1, <1>2, <1>3 DEF OnlyAsks, BusyTrue, ListComes
<1>9. OwnComes'
  <2>1. AskTrue(q0) /\ q0.seen \in Nat
    BY AsksOf
  <2>2. CASE q0.what \in {"policy", "update"} /\ q0.code = 200
    <3>1. list' = [list EXCEPT !.seen = q0.seen]
      BY <2>2 DEF ReceiveOfficerAnswer
    <3>2. list'.seen = q0.seen
      BY <3>1, StaffFacts DEF StaffFields
    <3>3. q0.seen >= own
      BY <2>1, <2>2 DEF AskTrue
    <3> QED BY <1>1, <3>2, <3>3 DEF OwnComes
  <2>3. CASE ~(q0.what \in {"policy", "update"} /\ q0.code = 200)
    <3>1. list' = list
      BY <2>3 DEF ReceiveOfficerAnswer
    <3>2. q0.made => q0.what = "update"
      BY <1>1, <2>1, PageAskKinds DEF AskTrue, ChangingCalls
    <3>3. CASE q0.made
      BY <1>1, <2>3, <3>2, <3>3 DEF OwnComes
    <3>4. CASE ~q0.made
      <4>1. ~Made /\ unreported' = unreported
        BY <1>1, <1>2, <3>4 DEF Made
      <4> QED BY <1>1, <1>2, <3>1, <4>1, StaffFacts DEF OwnComes
    <3> QED BY <3>3, <3>4
  <2> QED BY <2>2, <2>3
<1> QED BY <1>5, <1>7, <1>8, <1>9 DEF StaffPagesInv

LEMMA StatusReceived ==
  ASSUME StaffPagesInv, NEW q0 \in asks, ReceiveStatus(q0)
  PROVE  StaffPagesInv'
<1>1. /\ q0.what = "status" /\ q0.code \in {1, 200, 500}
      /\ UNCHANGED <<pageKind, draft, list, away, data, wanted, own, missed, unreported,
                     staffClicks>>
  BY DEF ReceiveStatus, Got
<1>2. pageKind = "privacy" /\ asks = {q0} /\ ~away /\ Working(q0)
  BY <1>1, PrivacyAlone
<1>3. own = 0 /\ q0.filter \in Filters /\ q0.no \in Nat /\ q0.no <= staffClicks /\ AskTrue(q0)
  BY <1>1, AsksOf DEF AskTrue
<1>4. StaffFlags'
  BY <1>1, StaffFacts DEF ReceiveStatus, StaffFlags
<1>5. StaffFields'
  BY <1>1, <1>2, StaffFacts DEF StaffFields
<1>6. ListComes' /\ OwnComes'
  BY <1>1, <1>2, <1>3, StaffFacts DEF ListComes, OwnComes
<1>7. CASE q0.code = 1
  <2>1. asks' = {} /\ busy' = FALSE
    BY <1>2, <1>7 DEF ReceiveStatus
  <2>2. (\A q \in asks' : AskTrue(q)') /\ OnlyAsks' /\ BusyTrue'
    BY <2>1 DEF OnlyAsks, BusyTrue
  <2> QED BY <1>4, <1>5, <1>6, <2>2 DEF StaffPagesInv
<1>8. CASE q0.code # 1
  <2>1. PICK new : new = Query("policy", q0.filter, q0.no)
    OBVIOUS
  <2>2. "policy" \in AskKinds /\ "policy" \in PageAsks(pageKind)
    BY <1>2 DEF AskKinds, PageAsks
  <2>3. /\ new \in AskRecord /\ new.what = "policy" /\ new.filter = q0.filter
        /\ new.no = q0.no /\ new.code = 0 /\ new.seen = 0 /\ ~new.chain /\ ~new.made
    BY <1>3, <2>1, <2>2, NewAsk
  <2>4. asks' = {new} /\ busy' = busy
    BY <1>2, <1>8, <2>1 DEF ReceiveStatus
  <2>5. AskTrue(new)'
    <3>1. q0.no = wanted.no => q0.filter = wanted.filter
      BY <1>3 DEF AskTrue
    <3> QED BY <1>1, <1>3, <2>2, <2>3, <3>1, StaffFacts DEF AskTrue
  <2>6. OnlyAsks'
    BY <2>4 DEF OnlyAsks
  <2>7. BusyTrue'
    <3>1. busy
      BY <1>2, StaffFacts DEF BusyTrue
    <3> QED BY <2>3, <2>4, <3>1 DEF BusyTrue, Working
  <2> QED BY <1>4, <1>5, <1>6, <2>4, <2>5, <2>6, <2>7 DEF StaffPagesInv
<1> QED BY <1>7, <1>8

\* A rebuild that succeeded asks for its range; one that did not shows nothing.
LEMMA AggregateReceived ==
  ASSUME StaffPagesInv, NEW q0 \in asks, ReceiveAggregate(q0)
  PROVE  StaffPagesInv'
<1>1. /\ q0.what = "aggregate" /\ q0.code \in {1, 200, 500}
      /\ unreported' = (IF q0.made THEN q0.code # 200 ELSE unreported)
      /\ UNCHANGED <<pageKind, draft, list, away, data, own, staffClicks>>
  BY DEF ReceiveAggregate, Got, Told
<1>2. /\ AskTrue(q0) /\ q0.filter \in Filters /\ q0.no \in Nat /\ q0.no <= staffClicks
      /\ q0.what \in PageAsks(pageKind) /\ ~away
  BY AsksOf, StaffFacts DEF StaffFields
<1>3. pageKind = "analytics" /\ "list" \in PageAsks(pageKind)
  BY <1>1, <1>2, PageAskKinds
<1>4. Working(q0) /\ \A q \in asks : q # q0 => ~Working(q)
  BY <1>1, StaffFacts DEF OnlyAsks, Working
<1>5. CASE q0.code = 200
  <2>1. PICK new \in AskRecord :
          /\ new = [Query("list", q0.filter, q0.no) EXCEPT !.chain = TRUE]
          /\ new.what = "list" /\ new.filter = q0.filter /\ new.no = q0.no
          /\ new.chain /\ ~new.made /\ new.code = 0 /\ new.seen = 0
    BY <1>2, NewChainAsk
  <2>3. /\ asks' = (asks \ {q0}) \cup {new} /\ wanted' = [filter |-> q0.filter, no |-> q0.no]
        /\ missed' = FALSE /\ failed' = FALSE /\ busy' = busy
    BY <1>5, <2>1 DEF ReceiveAggregate
  <2>4. wanted'.filter = q0.filter /\ wanted'.no = q0.no
    BY <2>3
  <2>5. AskTrue(new)'
    BY <1>1, <1>2, <1>3, <2>1, <2>4, StaffFacts DEF AskTrue, ChangingCalls
  <2>6. ASSUME NEW q \in asks, q # q0
        PROVE  AskTrue(q)' /\ q.no # q0.no
    <3>1. q.no # q0.no
      BY <2>6, StaffFacts DEF OnlyAsks
    <3>2. AskTrue(q)
      BY AsksOf
    <3> QED BY <1>1, <2>4, <3>1, <3>2 DEF AskTrue
  <2>7. OnlyAsks'
    <3>1. ASSUME NEW q1 \in asks', NEW q2 \in asks', q1.no = q2.no
          PROVE  q1 = q2
      <4>1. q1 = new \/ (q1 \in asks /\ q1 # q0)
        BY <2>3
      <4>2. q2 = new \/ (q2 \in asks /\ q2 # q0)
        BY <2>3
      <4> QED BY <2>1, <2>6, <3>1, <4>1, <4>2, StaffFacts DEF OnlyAsks
    <3>2. ASSUME NEW q1 \in asks', NEW q2 \in asks', Working(q1), Working(q2)
          PROVE  q1 = q2
      BY <1>4, <2>3, <3>2
    <3> QED BY <3>1, <3>2 DEF OnlyAsks
  <2>8. BusyTrue'
    <3>1. busy
      BY <1>2, <1>4, StaffFacts DEF BusyTrue
    <3> QED BY <2>1, <2>3, <3>1 DEF BusyTrue, Working
  <2>9. WantedComes'
    BY <2>1, <2>3, <2>4 DEF WantedComes
  <2>10. StaffFlags'
    BY <1>1, <2>3, StaffFacts DEF StaffFlags
  <2>11. StaffFields'
    BY <1>1, <1>2, <2>3, StaffFacts DEF StaffFields
  <2> QED BY <2>3, <2>5, <2>6, <2>7, <2>8, <2>9, <2>10, <2>11
          DEF StaffPagesInv, ListComes, OwnComes
<1>6. CASE q0.code # 200
  <2>1. /\ asks' = asks \ {q0} /\ busy' = FALSE /\ UNCHANGED <<wanted, missed>>
        /\ failed' \in BOOLEAN
    BY <1>6, StaffFacts DEF ReceiveAggregate, StaffFlags
  <2>2. (unreported => unreported') /\ (q0.made => unreported')
    BY <1>1, <1>6
  <2>3. Made => Made' \/ unreported'
    BY <2>1, <2>2 DEF Made
  <2>4. (\A q \in asks' : AskTrue(q)') /\ OnlyAsks'
    BY <1>1, <2>1, <2>2, <2>3, AsksGone
  <2>5. StaffFlags'
    BY <1>1, <1>6, <2>1, StaffFacts DEF StaffFlags
  <2>6. StaffFields'
    BY <1>1, <1>2, <2>1, StaffFacts DEF StaffFields
  <2>7. BusyTrue'
    BY <1>4, <2>1 DEF BusyTrue
  <2>8. WantedComes => WantedComes'
    BY <1>1, <2>1 DEF WantedComes
  <2>9. ListComes' /\ OwnComes'
    BY <1>1, <2>1, <2>2, <2>3, <2>8, StaffFacts DEF ListComes, OwnComes
  <2> QED BY <2>4, <2>5, <2>6, <2>7, <2>9 DEF StaffPagesInv
<1> QED BY <1>5, <1>6

LEMMA StaffStep ==
  ASSUME StaffPagesInv, StaffPagesNext \/ UNCHANGED staffVars
  PROVE  StaffPagesInv'
<1>1. ASSUME NEW q \in asks,
             \/ AnswerAsk(q) \/ LeaveStaffPage(q) \/ ReceiveList(q) \/ ReceiveAggregate(q)
             \/ ReceiveStatus(q) \/ ReceiveOfficerAnswer(q)
      PROVE  StaffPagesInv'
  BY <1>1, AnswerAskKeeps, StaffPageLeft, ListReceived, AggregateReceived, StatusReceived,
     OfficerAnswered
<1> QED BY <1>1, StaffClicksKeep, QuietStaffStep DEF StaffPagesNext

LEMMA StaffBegins == StaffPagesInit => StaffPagesInv
<1> SUFFICES ASSUME StaffPagesInit PROVE StaffPagesInv
  OBVIOUS
<1> DEFINE what == IF pageKind = "privacy" THEN "status" ELSE "list"
<1>1. PICK new : new = Query(what, Everything, 0)
  OBVIOUS
<1>2. /\ asks = {new} /\ pageKind \in Kinds /\ draft = Everything /\ own = 0 /\ data = 1
      /\ list = [filter |-> Everything, no |-> 0, seen |-> 0] /\ failed = FALSE /\ away = FALSE
      /\ wanted = [filter |-> Everything, no |-> 0] /\ missed = FALSE /\ unreported = FALSE
      /\ staffClicks = 0
  BY <1>1 DEF StaffPagesInit
<1>3. /\ what \in AskKinds /\ what \in PageAsks(pageKind)
      /\ what \in {"status", "list"} /\ (what = "status" <=> pageKind = "privacy")
  BY DEF AskKinds, PageAsks
<1>4. /\ new \in AskRecord /\ new.what = what /\ new.filter = Everything
      /\ new.no = 0 /\ new.code = 0 /\ new.seen = 0 /\ ~new.chain /\ ~new.made
  <2> HIDE DEF what
  <2> QED BY <1>1, <1>3, NewAsk, StaffPagesAssumption
<1> HIDE DEF what
<1>5. AskTrue(new)
  BY <1>2, <1>3, <1>4 DEF AskTrue
<1>6. (busy <=> pageKind = "privacy") /\ busy \in BOOLEAN
  BY DEF StaffPagesInit
<1>7. StaffFlags
  BY <1>2, <1>6 DEF StaffFlags
<1>8. StaffFields
  BY <1>2, StaffPagesAssumption DEF StaffFields
<1>9. OnlyAsks /\ ListComes /\ OwnComes
  BY <1>2 DEF OnlyAsks, ListComes, OwnComes
<1>10. BusyTrue
  BY <1>2, <1>3, <1>4, <1>6 DEF BusyTrue, Working
<1> QED BY <1>2, <1>5, <1>7, <1>8, <1>9, <1>10 DEF StaffPagesInv

LEMMA StaffPagesSound ==
  ASSUME StaffPagesInv
  PROVE  StaffPagesTypeOK /\ ListsShowWhatWasAsked /\ OneChangeAtATime
<1>1. StaffPagesTypeOK
  <2>1. {failed, busy, away, missed, unreported} \subseteq BOOLEAN
    BY StaffFacts DEF StaffFlags
  <2>2. \A q \in asks : q.what \in AskKinds
    BY AsksOf
  <2>3. draft \in Filters /\ list.filter \in Filters
    BY StaffFacts DEF StaffFields
  <2> QED BY <2>1, <2>2, <2>3, StaffFacts DEF StaffPagesTypeOK, AskKinds
<1>2. ListsShowWhatWasAsked
  <2>1. asks = {} => ~Made /\ ~WantedComes
    BY DEF Made, WantedComes
  <2> QED BY <2>1, StaffFacts
          DEF ListsShowWhatWasAsked, ListIsAskedFor, OwnChangeIsShown, ListComes, OwnComes
<1>3. OneChangeAtATime
  <2> DEFINE working == {q \in asks : Working(q)}
  <2>1. Cardinality(working) <= 1
    <3>1. CASE working = {}
      BY <3>1, FS_EmptySet
    <3>2. CASE working # {}
      <4>1. PICK q : working = {q}
        BY <3>2, StaffFacts DEF OnlyAsks
      <4>2. Cardinality({q}) = 1
        BY FS_Singleton
      <4> HIDE DEF working
      <4> QED BY <4>1, <4>2
    <3> QED BY <3>1, <3>2
  <2> QED BY <2>1, StaffFacts DEF OneChangeAtATime, BusyTrue
<1> QED BY <1>1, <1>2, <1>3

-----------------------------------------------------------------------------
(* The page of one case: its operators.                                    *)

Elements(s) == {s[i] : i \in DOMAIN s}

LEMMA PartsAndChanges ==
  /\ Parts \cap Changes = {} /\ "run" \in Changes /\ "review" \in Changes
  /\ "triage" \in Parts /\ "case" \in Parts
  /\ "none" \notin Changes /\ "none" \notin Parts
BY DEF Parts, Changes

LEMMA ReloadsAre ==
  /\ ReloadsAfter("status") = <<"case", "activity">>
  /\ ReloadsAfter("note") = <<"case", "activity">>
  /\ ReloadsAfter("upload") = <<"documents", "activity">>
  /\ ReloadsAfter("run") = <<"activity">>
  /\ ReloadsAfter("review") = <<"case", "triage", "activity">>
<1>1. ReloadsAfter("status") = <<"case", "activity">>
  BY Zenon DEF ReloadsAfter
<1>2. ReloadsAfter("note") = <<"case", "activity">>
  BY Zenon DEF ReloadsAfter
<1>3. ReloadsAfter("upload") = <<"documents", "activity">>
  BY Zenon DEF ReloadsAfter
<1>4. ReloadsAfter("run") = <<"activity">>
  BY Zenon DEF ReloadsAfter
<1>5. ReloadsAfter("review") = <<"case", "triage", "activity">>
  BY Zenon DEF ReloadsAfter
<1> QED BY <1>1, <1>2, <1>3, <1>4, <1>5

LEMMA TouchedAre ==
  /\ TouchedBy("status") = {"case", "activity"}
  /\ TouchedBy("note") = {"case", "activity"}
  /\ TouchedBy("upload") = {"documents", "activity"}
  /\ TouchedBy("run") = {"triage", "activity"}
  /\ TouchedBy("review") = {"case", "triage", "activity"}
<1>1. TouchedBy("status") = {"case", "activity"}
  BY Zenon DEF TouchedBy
<1>2. TouchedBy("note") = {"case", "activity"}
  BY Zenon DEF TouchedBy
<1>3. TouchedBy("upload") = {"documents", "activity"}
  BY Zenon DEF TouchedBy
<1>4. TouchedBy("run") = {"triage", "activity"}
  BY Zenon DEF TouchedBy
<1>5. TouchedBy("review") = {"case", "triage", "activity"}
  BY Zenon DEF TouchedBy
<1> QED BY <1>1, <1>2, <1>3, <1>4, <1>5

\* The loads after a change show what it touched; a triage run answers for its
\* result itself.
LEMMA ReloadsShowTouched ==
  ASSUME NEW change \in Changes
  PROVE  /\ ReloadsAfter(change) \in Chains /\ TouchedBy(change) \subseteq Parts
         /\ \A p \in TouchedBy(change) :
              p \in Elements(ReloadsAfter(change)) \/ (change = "run" /\ p = "triage")
<1>1. CASE change = "status"
  BY <1>1, ReloadsAre, TouchedAre DEF Chains, Parts, Elements
<1>2. CASE change = "note"
  BY <1>2, ReloadsAre, TouchedAre DEF Chains, Parts, Elements
<1>3. CASE change = "upload"
  BY <1>3, ReloadsAre, TouchedAre DEF Chains, Parts, Elements
<1>4. CASE change = "run"
  BY <1>4, ReloadsAre, TouchedAre DEF Chains, Parts, Elements
<1>5. CASE change = "review"
  BY <1>5, ReloadsAre, TouchedAre DEF Chains, Parts, Elements
<1> QED BY <1>1, <1>2, <1>3, <1>4, <1>5 DEF Changes

\* The next load of a chain is its first; the others follow.
LEMMA ChainGoesOn ==
  ASSUME NEW s \in Chains, s # <<>>
  PROVE  /\ Head(s) \in Parts /\ Tail(s) \in Chains
         /\ \A p \in Elements(s) : p = Head(s) \/ p \in Elements(Tail(s))
<1>1. CASE s = <<"activity">>
  BY <1>1 DEF Chains, Parts, Elements
<1>2. CASE s = <<"case", "activity">>
  BY <1>2 DEF Chains, Parts, Elements
<1>3. CASE s = <<"documents", "activity">>
  BY <1>3 DEF Chains, Parts, Elements
<1>4. CASE s = <<"triage", "activity">>
  BY <1>4 DEF Chains, Parts, Elements
<1>5. CASE s = <<"case", "triage", "activity">>
  BY <1>5 DEF Chains, Parts, Elements
<1> QED BY <1>1, <1>2, <1>3, <1>4, <1>5 DEF Chains

LEMMA ChainParts ==
  ASSUME NEW s \in Chains
  PROVE  Elements(s) \subseteq Parts /\ (s = <<>> => Elements(s) = {})
<1>1. CASE s = <<>>
  BY <1>1 DEF Elements
<1>2. CASE s # <<>>
  BY <1>2 DEF Chains, Parts, Elements
<1> QED BY <1>1, <1>2

\* The requests, and what becomes of them.
Declined(q, code) == [q EXCEPT !.code = code]
Loaded(q, seen, status, department, no, state) ==
  [q EXCEPT !.code = 200, !.seen = seen, !.status = status, !.department = department,
            !.resultNo = no, !.state = state]
Changed(q, code, seen, no, state) ==
  [q EXCEPT !.made = TRUE, !.code = code, !.seen = seen, !.resultNo = no, !.state = state]

LEMMA PostFields ==
  ASSUME NEW q \in Post
  PROVE  /\ q.what \in PostKinds /\ q.change \in PostChanges /\ q.then \in Chains
         /\ q.no \in Nat /\ q.code \in PostCodes /\ q.seen \in Nat
         /\ q.status \in Statuses /\ q.department \in Departments
         /\ q.resultNo \in ResultNos /\ q.state \in ResultStates /\ q.made \in BOOLEAN
BY DEF Post

LEMMA PostDeclined ==
  ASSUME NEW q \in Post, NEW code \in PostCodes
  PROVE  /\ Declined(q, code) \in Post
         /\ Declined(q, code).what = q.what /\ Declined(q, code).change = q.change
         /\ Declined(q, code).then = q.then /\ Declined(q, code).code = code
         /\ Declined(q, code).resultNo = q.resultNo /\ Declined(q, code).state = q.state
BY DEF Post, Declined

LEMMA PostLoaded ==
  ASSUME NEW q \in Post, NEW seen \in Nat, NEW status \in Statuses,
         NEW department \in Departments, NEW no \in ResultNos, NEW state \in ResultStates
  PROVE  LET a == Loaded(q, seen, status, department, no, state)
         IN  /\ a \in Post /\ a.what = q.what /\ a.change = q.change /\ a.then = q.then
             /\ a.code = 200 /\ a.seen = seen /\ a.resultNo = no /\ a.state = state
<1>1. 200 \in PostCodes
  BY DEF PostCodes
<1> DEFINE a == Loaded(q, seen, status, department, no, state)
<1>2. a \in Post
  <2>0. PICK code \in PostCodes : code = 200
    BY <1>1
  <2>1. PICK b \in Post : b = [q EXCEPT !.code = code, !.seen = seen]
    <3>1. [q EXCEPT !.code = code, !.seen = seen] \in Post
      BY Zenon DEF Post
    <3> QED BY <3>1, Zenon
  <2>2. PICK c \in Post : c = [b EXCEPT !.status = status, !.department = department]
    <3>1. [b EXCEPT !.status = status, !.department = department] \in Post
      BY Zenon DEF Post
    <3> QED BY <3>1, Zenon
  <2>3. a = [c EXCEPT !.resultNo = no, !.state = state]
    BY <2>0, <2>1, <2>2, Zenon DEF Loaded
  <2>4. [c EXCEPT !.resultNo = no, !.state = state] \in Post
    BY Zenon DEF Post
  <2> HIDE DEF a
  <2> QED BY <2>3, <2>4
<1>3. /\ a.what = q.what /\ a.change = q.change /\ a.then = q.then
      /\ a.code = 200 /\ a.seen = seen /\ a.resultNo = no /\ a.state = state
  BY DEF Post, Loaded
<1> QED BY <1>2, <1>3

LEMMA PostChanged ==
  ASSUME NEW q \in Post, NEW code \in PostCodes, NEW seen \in Nat, NEW no \in ResultNos,
         NEW state \in ResultStates, NEW a, a = Changed(q, code, seen, no, state)
  PROVE  /\ a \in Post /\ a.what = q.what /\ a.change = q.change /\ a.then = q.then
         /\ a.code = code /\ a.seen = seen /\ a.resultNo = no /\ a.state = state
         /\ a.made
BY DEF Post, Changed

LEMMA NewPost ==
  ASSUME NEW what \in PostKinds, NEW change \in PostChanges, NEW no \in Nat,
         NEW then \in Chains
  PROVE  LET a == Ask(what, change, no, then)
         IN  /\ a \in Post /\ a.what = what /\ a.change = change /\ a.then = then
             /\ a.code = 0 /\ a.seen = 0 /\ a.resultNo = 0 /\ a.state = "none" /\ ~a.made
<1>1. PICK first : first = (CHOOSE s \in Statuses : TRUE)
  OBVIOUS
<1>2. first \in Statuses
  BY <1>1, CasePageAssumption
<1>3. /\ 0 \in PostCodes /\ 0 \in ResultNos /\ "none" \in ResultStates
      /\ OwnDepartment \in Departments
  BY CasePageAssumption DEF PostCodes, ResultNos, ResultStates
<1> QED BY <1>1, <1>2, <1>3 DEF Ask, Post

-----------------------------------------------------------------------------
(* The page of one case: what a step does to its requests.                 *)

LEMMA PostsOf ==
  ASSUME CasePageInv, NEW q \in posts
  PROVE  /\ PostTrue(q) /\ q \in Post /\ ~left
         /\ q.what \in PostKinds /\ q.change \in PostChanges /\ q.then \in Chains
         /\ q.code \in PostCodes /\ q.seen \in Nat
BY PostFields DEF CasePageInv, PostsTrue, ButtonsTrue

LEMMA CaseFacts ==
  ASSUME CasePageInv
  PROVE  /\ CaseFlags /\ ServerTypes /\ PageTypes
         /\ PostsTrue /\ ButtonsTrue /\ FormsTrue
         /\ (left \/ \A p \in Parts : Comes(p))
BY DEF CasePageInv

\* Nothing is stored that is older than it was.
NotOlder == \A p \in Parts : version[p] <= version'[p] /\ version'[p] \in Nat

LEMMA PostStaysTrue ==
  ASSUME CasePageInv, NotOlder, NEW q \in posts
  PROVE  PostTrue(q)'
<1>1. PostTrue(q) /\ q.seen \in Nat
  BY PostsOf
<1>2. \A p \in Parts : version[p] \in Nat /\ version[p] <= version'[p] /\ version'[p] \in Nat
  BY CaseFacts DEF ServerTypes, NotOlder
<1>3. q.code = 200 /\ q.what \in Parts => q.seen <= version'[q.what]
  <2>1. SUFFICES ASSUME q.code = 200, q.what \in Parts PROVE q.seen <= version'[q.what]
    OBVIOUS
  <2>2. PICK p \in Parts : p = q.what
    BY <2>1
  <2>3. q.seen <= version[p]
    BY <1>1, <2>1, <2>2 DEF PostTrue
  <2> QED BY <1>1, <1>2, <2>2, <2>3
<1>4. q.code = 200 /\ q.what = "run" => q.seen <= version'["triage"]
  BY <1>1, <1>2, PartsAndChanges DEF PostTrue
<1> QED BY <1>1, <1>3, <1>4 DEF PostTrue

\* A request or answer takes the place of another of its chain.
LEMMA PostReplaced ==
  ASSUME CasePageInv, NotOlder, NEW q0 \in posts, NEW a \in Post, a.change = q0.change,
         posts' = (posts \ {q0}) \cup {a}, PostTrue(a)',
         running' <=> running, saving' <=> saving, left' = left
  PROVE  PostsTrue' /\ ButtonsTrue'
<1>1. PostsTrue'
  BY PostStaysTrue, CaseFacts DEF PostsTrue
<1>2. ~left /\ ButtonsTrue
  BY PostsOf, CaseFacts
<1>3. \A c : (\E q \in posts' : q.change = c) <=> (\E q \in posts : q.change = c)
  OBVIOUS
<1>4. OnlyOne("run")' /\ OnlyOne("review")'
  BY <1>2 DEF ButtonsTrue, OnlyOne
<1>5. ButtonsWaitForAnswers'
  BY <1>2, <1>3 DEF ButtonsTrue, ButtonsWaitForAnswers
<1> QED BY <1>1, <1>2, <1>4, <1>5 DEF ButtonsTrue

\* A chain ends, and with it the wait of its button.
LEMMA PostEnded ==
  ASSUME CasePageInv, NotOlder, NEW q0 \in posts, posts' = posts \ {q0}, left' = left,
         running' <=> running /\ q0.change # "run",
         saving' <=> saving /\ q0.change # "review"
  PROVE  PostsTrue' /\ ButtonsTrue'
<1>1. PostsTrue'
  BY PostStaysTrue, CaseFacts DEF PostsTrue
<1>2. ~left /\ ButtonsTrue
  BY PostsOf, CaseFacts
<1>3. OnlyOne("run")' /\ OnlyOne("review")'
  BY <1>2 DEF ButtonsTrue, OnlyOne
<1>4. ButtonsWaitForAnswers'
  <2>1. running' <=> \E q \in posts' : q.change = "run"
    <3>1. running <=> \E q \in posts : q.change = "run"
      BY <1>2 DEF ButtonsTrue, ButtonsWaitForAnswers
    <3>2. CASE q0.change = "run"
      BY <1>2, <3>2 DEF ButtonsTrue, OnlyOne
    <3>3. CASE q0.change # "run"
      BY <3>1, <3>3
    <3> QED BY <3>2, <3>3
  <2>2. saving' <=> \E q \in posts' : q.change = "review"
    <3>1. saving <=> \E q \in posts : q.change = "review"
      BY <1>2 DEF ButtonsTrue, ButtonsWaitForAnswers
    <3>2. CASE q0.change = "review"
      BY <1>2, <3>2 DEF ButtonsTrue, OnlyOne
    <3>3. CASE q0.change # "review"
      BY <3>1, <3>3
    <3> QED BY <3>2, <3>3
  <2> QED BY <2>1, <2>2 DEF ButtonsWaitForAnswers
<1> QED BY <1>1, <1>2, <1>3, <1>4 DEF ButtonsTrue

\* A change is sent; triage and a review only while none of theirs is awaited.
LEMMA PostSent ==
  ASSUME CasePageInv, NotOlder, ~left, left' = left, NEW a \in Post, posts' = posts \cup {a},
         PostTrue(a)',
         a.change = "run" => ~running, running' <=> running \/ a.change = "run",
         a.change = "review" => ~saving, saving' <=> saving \/ a.change = "review"
  PROVE  PostsTrue' /\ ButtonsTrue'
<1>1. PostsTrue'
  BY PostStaysTrue, CaseFacts DEF PostsTrue
<1>2. ButtonsTrue
  BY CaseFacts
<1>3. /\ running <=> \E q \in posts : q.change = "run"
      /\ saving <=> \E q \in posts : q.change = "review"
  BY <1>2 DEF ButtonsTrue, ButtonsWaitForAnswers
<1>4. OnlyOne("run")' /\ OnlyOne("review")'
  BY <1>2, <1>3 DEF ButtonsTrue, OnlyOne
<1>5. ButtonsWaitForAnswers'
  BY <1>3 DEF ButtonsWaitForAnswers
<1> QED BY <1>1, <1>4, <1>5 DEF ButtonsTrue

\* What one request would show is shown, missed, or comes in another way.
LEMMA AllStillCome ==
  ASSUME CasePageInv, ~left, NEW q0 \in posts, posts \ {q0} \subseteq posts', mine' = mine,
         \A p \in Parts : Settled(p) \/ Covers(q0, p) => Comes(p)'
  PROVE  \A p \in Parts : Comes(p)'
<1> SUFFICES ASSUME NEW p \in Parts PROVE Comes(p)'
  OBVIOUS
<1>1. Comes(p)
  BY CaseFacts
<1>2. ASSUME NEW q \in posts \ {q0}, Covers(q, p)
      PROVE  Comes(p)'
  <2>1. Covers(q, p)'
    BY <1>2 DEF Covers
  <2> QED BY <1>2, <2>1 DEF Comes
<1> QED BY <1>1, <1>2 DEF Comes

\* Nothing changes for what is shown or awaited.
LEMMA AllStayComing ==
  ASSUME CasePageInv, posts \subseteq posts', UNCHANGED <<mine, view, unseen, untold, left>>
  PROVE  left' \/ \A p \in Parts : Comes(p)'
<1> SUFFICES ASSUME ~left, NEW p \in Parts PROVE Comes(p)'
  OBVIOUS
<1>1. Comes(p)
  BY CaseFacts
<1>2. ASSUME NEW q \in posts, Covers(q, p)
      PROVE  Covers(q, p)' /\ q \in posts'
  BY <1>2 DEF Covers
<1> QED BY <1>1, <1>2 DEF Comes, Settled

LEMMA ServerStays ==
  ASSUME CasePageInv, UNCHANGED <<serverVars, mine>>
  PROVE  ServerTypes' /\ NotOlder
BY CaseFacts DEF ServerTypes, NotOlder, serverVars

\* The next load of the chain is sent, or the chain has come to its end.
LEMMA ChainContinues ==
  ASSUME CasePageInv, NEW q0 \in posts, Continue(q0), UNCHANGED <<serverVars, mine, left>>,
         \A p \in Parts :
           Settled(p) \/ (Covers(q0, p) /\ p \notin Awaited(q0))
             => Settled(p)'
  PROVE  /\ PostsTrue' /\ ButtonsTrue'
         /\ \A p \in Parts : Comes(p)'
         /\ running' \in BOOLEAN /\ saving' \in BOOLEAN /\ saved' \in BOOLEAN
<1>1. NotOlder /\ mine' = mine
  BY ServerStays
<1>2. /\ running' \in BOOLEAN /\ saving' \in BOOLEAN /\ saved' \in BOOLEAN
      /\ running' <=> running /\ ~(q0.change = "run" /\ q0.then = <<>>)
      /\ saving' <=> saving /\ ~(q0.change = "review" /\ q0.then = <<>>)
  <2>1. /\ running' = (running /\ ~(q0.change = "run" /\ q0.then = <<>>))
        /\ saving' = (saving /\ ~(q0.change = "review" /\ q0.then = <<>>))
        /\ saved' = (saved \/ (q0.change = "review" /\ q0.then = <<>> /\ TRUE))
    BY DEF Continue, Finally
  <2>2. running' \in BOOLEAN /\ saving' \in BOOLEAN /\ saved' \in BOOLEAN
    BY <2>1
  <2>3. running' <=> running /\ ~(q0.change = "run" /\ q0.then = <<>>)
    BY <2>1
  <2>4. saving' <=> saving /\ ~(q0.change = "review" /\ q0.then = <<>>)
    BY <2>1
  <2> QED BY <2>2, <2>3, <2>4
<1>3. q0.then \in Chains /\ q0.change \in PostChanges /\ ~left /\ Awaited(q0) = Elements(q0.then)
  BY PostsOf DEF Awaited, Elements
<1>4. CASE q0.then = <<>>
  <2>1. posts' = posts \ {q0}
    BY <1>4 DEF Continue
  <2>2. PostsTrue' /\ ButtonsTrue'
    BY <1>1, <1>2, <1>4, <2>1, PostEnded
  <2>3. Awaited(q0) = {}
    BY <1>3, <1>4, ChainParts
  <2>4. \A p \in Parts : Comes(p)'
    <3>1. \A p \in Parts : Settled(p) \/ Covers(q0, p) => Comes(p)'
      BY <1>1, <2>3 DEF Comes
    <3> QED BY <1>1, <1>3, <2>1, <3>1, AllStillCome
  <2> QED BY <1>2, <2>2, <2>4
<1>5. CASE q0.then # <<>>
  <2>1. PICK head, rest : head = Head(q0.then) /\ rest = Tail(q0.then)
    OBVIOUS
  <2>2. /\ head \in Parts /\ rest \in Chains
        /\ \A p \in Awaited(q0) : p = head \/ p \in Elements(rest)
    BY <1>3, <1>5, <2>1, ChainGoesOn
  <2>3. PICK a : a = Ask(head, q0.change, q0.no, rest)
    OBVIOUS
  <2>4. /\ a \in Post /\ a.what = head /\ a.change = q0.change /\ a.then = rest
        /\ a.code = 0 /\ a.resultNo = 0 /\ a.state = "none" /\ ~a.made
    <3>1. head \in PostKinds /\ q0.no \in Nat
      BY <2>2, PostsOf, PostFields DEF PostKinds
    <3> QED BY <1>3, <2>2, <2>3, <3>1, NewPost
  <2>5. posts' = (posts \ {q0}) \cup {a}
    BY <1>5, <2>1, <2>3 DEF Continue
  <2>6. PostTrue(a)'
    BY <2>2, <2>4, PartsAndChanges DEF PostTrue
  <2>7. PostsTrue' /\ ButtonsTrue'
    <3>1. (running' <=> running) /\ (saving' <=> saving)
      BY <1>2, <1>5
    <3> QED BY <1>1, <2>4, <2>5, <2>6, <3>1, PostReplaced
  <2>8. \A p \in Parts : Comes(p)'
    <3>1. ASSUME NEW p \in Parts, p \in Awaited(q0)
          PROVE  Comes(p)'
      <4>1. Covers(a, p)'
        <5>1. p \in Awaited(a) \/ (a.what = p /\ a.code = 0)
          BY <2>2, <2>4, <3>1 DEF Awaited, Elements
        <5> QED BY <2>2, <2>4, <5>1 DEF Covers
      <4> QED BY <2>5, <4>1 DEF Comes
    <3>2. ASSUME NEW p \in Parts, Settled(p) \/ Covers(q0, p)
          PROVE  Comes(p)'
      BY <1>1, <3>1, <3>2 DEF Comes
    <3>3. posts \ {q0} \subseteq posts'
      BY <2>5
    <3> QED BY <1>1, <1>3, <3>2, <3>3, AllStillCome
  <2> QED BY <1>2, <2>7, <2>8
<1> QED BY <1>4, <1>5

\* A chain breaks off, and what it would have shown is missed.
LEMMA ChainAborts ==
  ASSUME CasePageInv, NEW q0 \in posts, Abort(q0), UNCHANGED <<serverVars, mine, left>>,
         \A p \in Parts : Settled(p) \/ Covers(q0, p)
                            => Settled(p)'
  PROVE  /\ PostsTrue' /\ ButtonsTrue'
         /\ \A p \in Parts : Comes(p)'
         /\ running' \in BOOLEAN /\ saving' \in BOOLEAN /\ saved' \in BOOLEAN
<1>1. NotOlder /\ mine' = mine
  BY ServerStays
<1>2. /\ running' \in BOOLEAN /\ saving' \in BOOLEAN /\ saved' \in BOOLEAN
      /\ running' <=> running /\ q0.change # "run"
      /\ saving' <=> saving /\ q0.change # "review"
  <2>1. /\ running' = (running /\ ~(q0.change = "run" /\ TRUE))
        /\ saving' = (saving /\ ~(q0.change = "review" /\ TRUE))
        /\ saved' = (saved \/ (q0.change = "review" /\ TRUE /\ FALSE))
    BY DEF Abort, Finally
  <2>2. running' \in BOOLEAN /\ saving' \in BOOLEAN /\ saved' \in BOOLEAN
    BY <2>1
  <2>3. running' <=> running /\ q0.change # "run"
    BY <2>1
  <2>4. saving' <=> saving /\ q0.change # "review"
    BY <2>1
  <2> QED BY <2>2, <2>3, <2>4
<1>3. posts' = posts \ {q0} /\ ~left
  BY PostsOf DEF Abort
<1>4. PostsTrue' /\ ButtonsTrue'
  BY <1>1, <1>2, <1>3, PostEnded
<1>5. \A p \in Parts : Comes(p)'
  <2>1. \A p \in Parts : Settled(p) \/ Covers(q0, p) => Comes(p)'
    BY <1>1 DEF Comes
  <2> QED BY <1>1, <1>3, <2>1, AllStillCome
<1> QED BY <1>2, <1>4, <1>5

-----------------------------------------------------------------------------
(* The page of one case: the answers.                                      *)

LEMMA WhatALoadCovers ==
  ASSUME NEW q \in Post, q.what \in Parts, NEW p \in Parts, Covers(q, p)
  PROVE  p \in Awaited(q) \/ (p = q.what /\ (q.code = 200 => q.seen >= mine[p]))
BY PartsAndChanges DEF Covers

LEMMA WhatAChangeCovers ==
  ASSUME NEW q \in Post, q.what \in Changes, NEW p \in Parts, Covers(q, p)
  PROVE  \/ q.code # 200 /\ q.made /\ p \in TouchedBy(q.what)
         \/ q.code = 200 /\ p \in Awaited(q)
         \/ q.code = 200 /\ q.what = "run" /\ p = "triage" /\ q.seen >= mine[p]
BY PartsAndChanges DEF Covers

LEMMA Seen ==
  ASSUME CasePageInv, NEW p0 \in Parts, NEW n \in Nat, n <= version[p0], See(p0, n),
         UNCHANGED <<serverVars, mine>>
  PROVE  /\ view' \in [Parts -> Nat] /\ \A p \in Parts : view'[p] <= version'[p]
         /\ unseen' \subseteq Parts /\ untold' \subseteq Parts
         /\ \A p \in Parts : Settled(p) \/ (p = p0 /\ n >= mine[p]) => Settled(p)'
<1>1. view' = [view EXCEPT ![p0] = n]
  BY DEF See
<1>2. /\ view \in [Parts -> Nat] /\ (\A p \in Parts : view[p] <= version[p])
      /\ unseen \subseteq Parts /\ untold \subseteq Parts /\ version' = version
  BY CaseFacts DEF PageTypes, serverVars
<1>3. /\ unseen' = (IF n >= mine[p0] THEN unseen \ {p0}
                    ELSE IF view[p0] >= mine[p0] THEN unseen \cup {p0} ELSE unseen)
      /\ untold' = (IF n >= mine[p0] THEN untold \ {p0} ELSE untold)
  BY DEF See
<1>4. /\ view' \in [Parts -> Nat] /\ view'[p0] = n
      /\ \A p \in Parts \ {p0} : view'[p] = view[p]
  BY <1>1, <1>2
<1>5. unseen' \subseteq Parts /\ untold' \subseteq Parts
  BY <1>2, <1>3
<1>6. \A p \in Parts : view'[p] <= version'[p]
  BY <1>2, <1>4
<1>7. ASSUME NEW p \in Parts, Settled(p) \/ (p = p0 /\ n >= mine[p])
      PROVE  Settled(p)'
  <2>1. CASE p = p0
    BY <1>3, <1>4, <1>7, <2>1 DEF Settled
  <2>2. CASE p # p0
    BY <1>3, <1>4, <1>7, <2>2 DEF Settled
  <2> QED BY <2>1, <2>2
<1> QED BY <1>4, <1>5, <1>6, <1>7

LEMMA ResultShown ==
  ASSUME CasePageInv, NEW no \in ResultNos, NEW state \in ResultStates,
         no = 0 => state = "none", ShowResult(no, state)
  PROVE  /\ result' \in [no : ResultNos, state : ResultStates]
         /\ form' \in Departments /\ edited' \in BOOLEAN
         /\ result'.no # 0 /\ ~edited' => form' = Suggested[result'.no]
         /\ result'.no = 0 => result'.state = "none"
<1>1. result' = [no |-> no, state |-> state]
  BY DEF ShowResult
<1>2. result'.no = no /\ result'.state = state /\ result' \in [no : ResultNos, state : ResultStates]
  BY <1>1
<1>3. CASE no = 0
  BY <1>2, <1>3, CaseFacts DEF ShowResult, PageTypes, CaseFlags
<1>4. CASE no # 0
  <2>1. form' = Suggested[no] /\ edited' = FALSE
    BY <1>4 DEF ShowResult
  <2>2. Suggested[no] \in Departments
    BY <1>4, CasePageAssumption DEF ResultNos
  <2> QED BY <1>2, <1>4, <2>1, <2>2
<1> QED BY <1>3, <1>4

\* What an answer carries.
LEMMA AnswerCarries ==
  ASSUME CasePageInv, NEW q \in posts
  PROVE  /\ q.what \in Parts /\ q.code = 200 => q.seen <= version[q.what]
         /\ q.what = "run" /\ q.code = 200 => q.seen <= version["triage"]
         /\ q.seen \in Nat /\ q.resultNo \in ResultNos /\ q.state \in ResultStates
         /\ q.resultNo = 0 => q.state = "none"
         /\ q.status \in Statuses /\ q.department \in Departments
BY PostsOf, PostFields DEF PostTrue

LEMMA CaseReceived ==
  ASSUME CasePageInv, NEW q0 \in posts, ReceiveCase(q0)
  PROVE  CasePageInv'
<1>1. /\ q0.what = "case" /\ q0.code \in {1, 200, 500} /\ q0 \in Post /\ ~left
      /\ UNCHANGED <<serverVars, result, form, edited, left, mine, scope, clicks, others>>
      /\ "case" \in Parts /\ Awaited(q0) \subseteq Parts
  <2>1. Awaited(q0) = Elements(q0.then)
    BY DEF Awaited, Elements
  <2> QED BY <2>1, PostsOf, PartsAndChanges, ChainParts DEF ReceiveCase
<1>2. ServerTypes' /\ NotOlder /\ mine' = mine
  BY <1>1, ServerStays
<1>3. CASE q0.code = 200
  <2>1. /\ See("case", q0.seen) /\ Continue(q0)
        /\ shown' = [status |-> q0.status, department |-> q0.department]
        /\ select' = q0.status /\ chosen' = FALSE
    BY <1>3 DEF ReceiveCase
  <2>2. q0.seen \in Nat /\ q0.seen <= version["case"]
    BY <1>1, <1>3, AnswerCarries
  <2>3. /\ view' \in [Parts -> Nat] /\ \A p \in Parts : view'[p] <= version'[p]
        /\ unseen' \subseteq Parts /\ untold' \subseteq Parts
        /\ \A p \in Parts : Settled(p) \/ (p = "case" /\ q0.seen >= mine[p]) => Settled(p)'
    BY <1>1, <2>1, <2>2, Seen
  <2>4. \A p \in Parts :
          Settled(p) \/ (Covers(q0, p) /\ p \notin Awaited(q0))
            => Settled(p)'
    BY <1>1, <1>3, <2>3, WhatALoadCovers
  <2>5. /\ PostsTrue' /\ ButtonsTrue' /\ \A p \in Parts : Comes(p)'
        /\ running' \in BOOLEAN /\ saving' \in BOOLEAN /\ saved' \in BOOLEAN
    BY <1>1, <2>1, <2>4, ChainContinues
  <2>6. CaseFlags'
    BY <1>1, <2>1, <2>5, CaseFacts DEF CaseFlags
  <2>7. PageTypes'
    BY <1>1, <2>1, <2>3, AnswerCarries, CaseFacts DEF PageTypes, CaseRecord
  <2>8. FormsTrue'
    BY <1>1, <2>1, CaseFacts DEF FormsTrue
  <2> QED BY <1>2, <2>5, <2>6, <2>7, <2>8 DEF CasePageInv
<1>4. CASE q0.code # 200
  <2>1. /\ unseen' = unseen \cup {"case"} \cup (IF q0.code = 1 THEN Awaited(q0) ELSE {})
        /\ UNCHANGED <<view, untold, shown, select, chosen>>
    BY <1>4 DEF ReceiveCase
  <2>2. /\ PostsTrue' /\ ButtonsTrue' /\ \A p \in Parts : Comes(p)'
        /\ running' \in BOOLEAN /\ saving' \in BOOLEAN /\ saved' \in BOOLEAN
    <3>1. CASE q0.code = 1
      <4>1. Abort(q0)
        BY <3>1 DEF ReceiveCase
      <4>2. \A p \in Parts : Settled(p) \/ Covers(q0, p)
                               => Settled(p)'
        BY <1>1, <2>1, <3>1, WhatALoadCovers DEF Settled
      <4> QED BY <1>1, <4>1, <4>2, ChainAborts
    <3>2. CASE q0.code # 1
      <4>1. Continue(q0)
        BY <3>2 DEF ReceiveCase
      <4>2. \A p \in Parts :
              Settled(p) \/ (Covers(q0, p) /\ p \notin Awaited(q0))
                => Settled(p)'
        BY <1>1, <2>1, WhatALoadCovers DEF Settled
      <4> QED BY <1>1, <4>1, <4>2, ChainContinues
    <3> QED BY <3>1, <3>2
  <2>3. CaseFlags'
    BY <1>1, <2>1, <2>2, CaseFacts DEF CaseFlags
  <2>4. PageTypes'
    BY <1>1, <2>1, CaseFacts DEF PageTypes, serverVars
  <2>5. FormsTrue'
    BY <1>1, <2>1, CaseFacts DEF FormsTrue
  <2> QED BY <1>2, <2>2, <2>3, <2>4, <2>5 DEF CasePageInv
<1> QED BY <1>3, <1>4

LEMMA PartReceived ==
  ASSUME CasePageInv, NEW q0 \in posts, ReceivePart(q0)
  PROVE  CasePageInv'
<1>1. /\ q0.what \in Parts /\ q0.code \in {1, 200, 500} /\ q0 \in Post /\ ~left
      /\ UNCHANGED <<serverVars, shown, select, chosen, left, mine, scope, clicks, others>>
      /\ Awaited(q0) \subseteq Parts
  <2>1. Awaited(q0) = Elements(q0.then)
    BY DEF Awaited, Elements
  <2> QED BY <2>1, PostsOf, ChainParts DEF ReceivePart
<1>2. ServerTypes' /\ NotOlder /\ mine' = mine
  BY <1>1, ServerStays
<1>3. CASE q0.code = 200
  <2>1. /\ See(q0.what, q0.seen) /\ Continue(q0)
        /\ \/ ShowResult(q0.resultNo, q0.state)
           \/ UNCHANGED <<result, form, edited>>
    BY <1>3 DEF ReceivePart
  <2>2. q0.seen \in Nat /\ q0.seen <= version[q0.what]
    BY <1>1, <1>3, AnswerCarries
  <2>3. /\ view' \in [Parts -> Nat] /\ \A p \in Parts : view'[p] <= version'[p]
        /\ unseen' \subseteq Parts /\ untold' \subseteq Parts
        /\ \A p \in Parts : Settled(p) \/ (p = q0.what /\ q0.seen >= mine[p]) => Settled(p)'
    BY <1>1, <2>1, <2>2, Seen
  <2>4. \A p \in Parts :
          Settled(p) \/ (Covers(q0, p) /\ p \notin Awaited(q0))
            => Settled(p)'
    BY <1>1, <1>3, <2>3, WhatALoadCovers
  <2>5. /\ PostsTrue' /\ ButtonsTrue' /\ \A p \in Parts : Comes(p)'
        /\ running' \in BOOLEAN /\ saving' \in BOOLEAN /\ saved' \in BOOLEAN
    BY <1>1, <2>1, <2>4, ChainContinues
  <2>6. /\ result' \in [no : ResultNos, state : ResultStates]
        /\ form' \in Departments /\ edited' \in BOOLEAN
        /\ result'.no # 0 /\ ~edited' => form' = Suggested[result'.no]
        /\ result'.no = 0 => result'.state = "none"
    <3>1. CASE ShowResult(q0.resultNo, q0.state)
      BY <3>1, AnswerCarries, ResultShown
    <3>2. CASE UNCHANGED <<result, form, edited>>
      BY <3>2, CaseFacts DEF PageTypes, CaseFlags, FormsTrue
    <3> QED BY <2>1, <3>1, <3>2
  <2>7. CaseFlags'
    BY <1>1, <2>5, <2>6, CaseFacts DEF CaseFlags
  <2>8. PageTypes'
    BY <1>1, <2>3, <2>6, CaseFacts DEF PageTypes
  <2>9. FormsTrue'
    BY <1>1, <2>6, CaseFacts DEF FormsTrue
  <2> QED BY <1>2, <2>5, <2>7, <2>8, <2>9 DEF CasePageInv
<1>4. CASE q0.code # 200
  <2>1. /\ unseen' = unseen \cup {q0.what} \cup Awaited(q0) /\ Abort(q0)
        /\ UNCHANGED <<view, untold, result, form, edited>>
    BY <1>4 DEF ReceivePart
  <2>2. \A p \in Parts : Settled(p) \/ Covers(q0, p)
                           => Settled(p)'
    BY <1>1, <2>1, WhatALoadCovers DEF Settled
  <2>3. /\ PostsTrue' /\ ButtonsTrue' /\ \A p \in Parts : Comes(p)'
        /\ running' \in BOOLEAN /\ saving' \in BOOLEAN /\ saved' \in BOOLEAN
    BY <1>1, <2>1, <2>2, ChainAborts
  <2>4. CaseFlags'
    BY <1>1, <2>1, <2>3, CaseFacts DEF CaseFlags
  <2>5. PageTypes'
    BY <1>1, <2>1, CaseFacts DEF PageTypes, serverVars
  <2>6. FormsTrue'
    BY <1>1, <2>1, CaseFacts DEF FormsTrue
  <2> QED BY <1>2, <2>3, <2>4, <2>5, <2>6 DEF CasePageInv
<1> QED BY <1>3, <1>4

LEMMA ChangeReceived ==
  ASSUME CasePageInv, NEW q0 \in posts, ReceiveChange(q0)
  PROVE  CasePageInv'
<1>1. /\ q0.what \in Changes /\ q0.code \in {1, 200, 401, 500} /\ q0 \in Post /\ ~left
      /\ UNCHANGED <<serverVars, shown, select, chosen, left, mine, scope, clicks, others>>
      /\ TouchedBy(q0.what) \subseteq Parts /\ "triage" \in Parts
  BY PostsOf, PartsAndChanges, ReloadsShowTouched DEF ReceiveChange
<1>2. ServerTypes' /\ NotOlder /\ mine' = mine
  BY <1>1, ServerStays
<1>3. CASE q0.code = 200
  <2>1. /\ Continue(q0)
        /\ \/ q0.what = "run" /\ See("triage", q0.seen) /\ ShowResult(q0.resultNo, q0.state)
           \/ q0.what # "run" /\ UNCHANGED <<view, unseen, untold, result, form, edited>>
    BY <1>3 DEF ReceiveChange
  <2>2. /\ view' \in [Parts -> Nat] /\ \A p \in Parts : view'[p] <= version'[p]
        /\ unseen' \subseteq Parts /\ untold' \subseteq Parts
        /\ \A p \in Parts :
             Settled(p) \/ (q0.what = "run" /\ p = "triage" /\ q0.seen >= mine[p])
               => Settled(p)'
    <3>1. CASE q0.what = "run"
      <4>1. q0.seen \in Nat /\ q0.seen <= version["triage"]
        BY <1>3, <3>1, AnswerCarries
      <4>2. See("triage", q0.seen)
        BY <2>1, <3>1
      <4>3. /\ view' \in [Parts -> Nat] /\ \A p \in Parts : view'[p] <= version'[p]
            /\ unseen' \subseteq Parts /\ untold' \subseteq Parts
            /\ \A p \in Parts : Settled(p) \/ (p = "triage" /\ q0.seen >= mine[p])
                                  => Settled(p)'
        BY <1>1, <4>1, <4>2, Seen
      <4> QED BY <4>3
    <3>2. CASE q0.what # "run"
      <4>1. UNCHANGED <<view, unseen, untold, version, mine>>
        BY <1>1, <2>1, <3>2 DEF serverVars
      <4> QED BY <3>2, <4>1, CaseFacts DEF PageTypes, Settled
    <3> QED BY <3>1, <3>2
  <2>3. \A p \in Parts :
          Settled(p) \/ (Covers(q0, p) /\ p \notin Awaited(q0))
            => Settled(p)'
    BY <1>1, <1>3, <2>2, WhatAChangeCovers
  <2>4. /\ PostsTrue' /\ ButtonsTrue' /\ \A p \in Parts : Comes(p)'
        /\ running' \in BOOLEAN /\ saving' \in BOOLEAN /\ saved' \in BOOLEAN
    BY <1>1, <2>1, <2>3, ChainContinues
  <2>5. /\ result' \in [no : ResultNos, state : ResultStates]
        /\ form' \in Departments /\ edited' \in BOOLEAN
        /\ result'.no # 0 /\ ~edited' => form' = Suggested[result'.no]
        /\ result'.no = 0 => result'.state = "none"
    <3>1. CASE ShowResult(q0.resultNo, q0.state)
      BY <3>1, AnswerCarries, ResultShown
    <3>2. CASE UNCHANGED <<result, form, edited>>
      BY <3>2, CaseFacts DEF PageTypes, CaseFlags, FormsTrue
    <3> QED BY <2>1, <3>1, <3>2
  <2>6. CaseFlags'
    BY <1>1, <2>4, <2>5, CaseFacts DEF CaseFlags
  <2>7. PageTypes'
    BY <1>1, <2>2, <2>5, CaseFacts DEF PageTypes
  <2>8. FormsTrue'
    BY <1>1, <2>5, CaseFacts DEF FormsTrue
  <2> QED BY <1>2, <2>4, <2>6, <2>7, <2>8 DEF CasePageInv
<1>4. CASE q0.code # 200
  <2>1. /\ untold' = (IF q0.made THEN untold \cup TouchedBy(q0.what) ELSE untold)
        /\ Abort(q0) /\ UNCHANGED <<view, unseen, result, form, edited>>
    BY <1>4 DEF ReceiveChange
  <2>2. \A p \in Parts : Settled(p) \/ Covers(q0, p)
                           => Settled(p)'
    BY <1>1, <1>4, <2>1, WhatAChangeCovers DEF Settled
  <2>3. /\ PostsTrue' /\ ButtonsTrue' /\ \A p \in Parts : Comes(p)'
        /\ running' \in BOOLEAN /\ saving' \in BOOLEAN /\ saved' \in BOOLEAN
    BY <1>1, <2>1, <2>2, ChainAborts
  <2>4. CaseFlags'
    BY <1>1, <2>1, <2>3, CaseFacts DEF CaseFlags
  <2>5. PageTypes'
    BY <1>1, <2>1, CaseFacts DEF PageTypes, serverVars
  <2>6. FormsTrue'
    BY <1>1, <2>1, CaseFacts DEF FormsTrue
  <2> QED BY <1>2, <2>3, <2>4, <2>5, <2>6 DEF CasePageInv
<1> QED BY <1>3, <1>4

LEMMA CasePageLeft ==
  ASSUME CasePageInv, NEW q0 \in posts, LeavePage(q0)
  PROVE  CasePageInv'
<1>1. /\ left' = TRUE /\ posts' = {}
      /\ UNCHANGED <<serverVars, view, shown, result, formVars, running, saving, saved,
                     mine, unseen, untold, scope, clicks, others>>
  BY DEF LeavePage
<1>2. ServerTypes'
  BY <1>1, ServerStays
<1>3. CaseFlags'
  BY <1>1, CaseFacts DEF CaseFlags, formVars
<1>4. PageTypes' /\ FormsTrue'
  BY <1>1, CaseFacts DEF PageTypes, FormsTrue, formVars, serverVars
<1>5. PostsTrue' /\ ButtonsTrue'
  BY <1>1 DEF PostsTrue, ButtonsTrue, ButtonsWaitForAnswers, OnlyOne
<1> QED BY <1>1, <1>2, <1>3, <1>4, <1>5 DEF CasePageInv

-----------------------------------------------------------------------------
(* The page of one case: the API.                                          *)

\* An answer takes the place of its request; the page has not seen it yet.
LEMMA PageWaits ==
  ASSUME CasePageInv, UNCHANGED <<pageVars, unseen, untold, scope, clicks>>, NotOlder
  PROVE  CaseFlags' /\ PageTypes' /\ FormsTrue'
<1>1. CaseFlags'
  BY CaseFacts DEF CaseFlags, pageVars, formVars
<1>2. \A p \in Parts : view'[p] <= version'[p]
  <2>1. \A p \in Parts : view[p] \in Nat /\ version[p] \in Nat /\ view[p] <= version[p]
    BY CaseFacts DEF PageTypes, ServerTypes
  <2>2. view' = view
    BY DEF pageVars
  <2> QED BY <2>1, <2>2 DEF NotOlder
<1>3. PageTypes'
  BY <1>2, CaseFacts DEF PageTypes, pageVars, formVars
<1>4. FormsTrue'
  BY CaseFacts DEF FormsTrue, pageVars, formVars
<1> QED BY <1>1, <1>3, <1>4

LEMMA DeclineKeeps ==
  ASSUME CasePageInv, NEW q0 \in posts, Decline(q0)
  PROVE  CasePageInv'
<1>1. /\ UNCHANGED <<serverVars, pageVars, mine, unseen, untold, scope, clicks, others>>
      /\ q0.code = 0 /\ q0 \in Post /\ ~left /\ PostTrue(q0)
  BY PostsOf DEF Decline
<1>2. PICK code \in {1, 401, 500} : posts' = (posts \ {q0}) \cup {Declined(q0, code)}
  BY DEF Decline, Answered, Declined
<1>3. PICK a : a = Declined(q0, code)
  OBVIOUS
<1>4. /\ a \in Post /\ a.what = q0.what /\ a.change = q0.change /\ a.then = q0.then
      /\ a.code = code /\ a.resultNo = q0.resultNo /\ a.state = q0.state
  <2>1. code \in PostCodes
    BY <1>2 DEF PostCodes
  <2> QED BY <1>1, <1>3, <2>1, PostDeclined
<1>5. ServerTypes' /\ NotOlder /\ mine' = mine
  BY <1>1, ServerStays
<1>6. PostTrue(a)'
  BY <1>1, <1>2, <1>4 DEF PostTrue
<1>7. CaseFlags' /\ PageTypes' /\ FormsTrue'
  BY <1>1, <1>5, PageWaits
<1>8. (running' <=> running) /\ (saving' <=> saving) /\ left' = left
  BY <1>1 DEF pageVars
<1>9. PostsTrue' /\ ButtonsTrue'
  BY <1>2, <1>3, <1>4, <1>5, <1>6, <1>8, PostReplaced
<1>10. \A p \in Parts : Comes(p)'
  <2>1. ASSUME NEW p \in Parts, Covers(q0, p)
        PROVE  Covers(a, p)'
    <3>1. ~q0.made /\ q0.code # 200 /\ a.code # 200
      BY <1>1, <1>2, <1>4 DEF PostTrue
    <3> QED BY <1>4, <1>5, <2>1, <3>1, PartsAndChanges DEF Covers, Awaited
  <2>2. \A p \in Parts : Settled(p) \/ Covers(q0, p) => Comes(p)'
    BY <1>1, <1>2, <1>3, <1>5, <2>1 DEF Comes, Settled, pageVars
  <2> QED BY <1>1, <1>2, <1>5, <2>2, AllStillCome
<1> QED BY <1>5, <1>7, <1>9, <1>10 DEF CasePageInv

LEMMA LastResult ==
  ASSUME CasePageInv
  PROVE  Len(results) \in ResultNos /\ Len(results) # 0 /\ Last(results) \in StoredStates
BY CaseFacts DEF ServerTypes, Last

LEMMA ServeLoadKeeps ==
  ASSUME CasePageInv, NEW q0 \in posts, ServeLoad(q0)
  PROVE  CasePageInv'
<1>1. /\ UNCHANGED <<serverVars, pageVars, mine, unseen, untold, scope, clicks, others>>
      /\ q0.code = 0 /\ q0 \in Post /\ ~left /\ PostTrue(q0) /\ q0.what \in Parts
  BY PostsOf DEF ServeLoad
<1>2. PICK seen, status, department, no, state :
        /\ seen = version[q0.what] /\ status = record.status /\ department = record.department
        /\ no = Len(results) /\ state = IF results = <<>> THEN "none" ELSE Last(results)
  OBVIOUS
<1>3. posts' = (posts \ {q0}) \cup {Loaded(q0, seen, status, department, no, state)}
  BY <1>2 DEF ServeLoad, Answered, Loaded
<1>4. PICK a : a = Loaded(q0, seen, status, department, no, state)
  OBVIOUS
<1>5. /\ seen \in Nat /\ seen >= mine[q0.what] /\ status \in Statuses
      /\ department \in Departments /\ no \in ResultNos /\ no # 0 /\ state \in ResultStates
  <2>1. /\ version[q0.what] \in Nat /\ mine[q0.what] \in Nat
        /\ mine[q0.what] <= version[q0.what] /\ record \in CaseRecord
    BY <1>1, CaseFacts DEF ServerTypes
  <2>2. seen \in Nat /\ seen >= mine[q0.what]
    BY <1>2, <2>1
  <2>3. status \in Statuses /\ department \in Departments
    BY <1>2, <2>1 DEF CaseRecord
  <2>4. no \in ResultNos /\ no # 0 /\ state \in ResultStates
    BY <1>2, LastResult DEF StoredStates, ResultStates
  <2> QED BY <2>2, <2>3, <2>4
<1>6. /\ a \in Post /\ a.what = q0.what /\ a.change = q0.change /\ a.then = q0.then
      /\ a.code = 200 /\ a.seen = seen /\ a.resultNo = no /\ a.state = state
  BY <1>1, <1>4, <1>5, PostLoaded
<1>7. ServerTypes' /\ NotOlder /\ mine' = mine
  BY <1>1, ServerStays
<1>8. PostTrue(a)'
  <2>1. a.seen = version'[a.what] /\ a.what \notin Changes
    BY <1>1, <1>2, <1>6, PartsAndChanges DEF serverVars
  <2>2. a.seen <= version'[a.what]
    BY <1>5, <1>6, <2>1
  <2> QED BY <1>5, <1>6, <2>1, <2>2, PartsAndChanges DEF PostTrue
<1>9. CaseFlags' /\ PageTypes' /\ FormsTrue'
  BY <1>1, <1>7, PageWaits
<1>10. (running' <=> running) /\ (saving' <=> saving) /\ left' = left
  BY <1>1 DEF pageVars
<1>11. PostsTrue' /\ ButtonsTrue'
  BY <1>3, <1>4, <1>6, <1>7, <1>8, <1>10, PostReplaced
<1>12. \A p \in Parts : Comes(p)'
  <2>1. ASSUME NEW p \in Parts, Covers(q0, p)
        PROVE  Covers(a, p)'
    BY <1>1, <1>5, <1>6, <1>7, <2>1, PartsAndChanges DEF Covers, Awaited
  <2>2. \A p \in Parts : Settled(p) \/ Covers(q0, p) => Comes(p)'
    BY <1>1, <1>3, <1>4, <1>7, <2>1 DEF Comes, Settled, pageVars
  <2> QED BY <1>1, <1>3, <1>7, <2>2, AllStillCome
<1> QED BY <1>7, <1>9, <1>11, <1>12 DEF CasePageInv

LEMMA EffectStored ==
  ASSUME CasePageInv, NEW q0 \in posts, NEW code, Effect(q0, code)
  PROVE  /\ record' \in CaseRecord
         /\ results' \in Seq(StoredStates) /\ Len(results') \in ResultNos /\ Len(results') > 0
         /\ Last(results') \in StoredStates
<1>1. /\ results \in Seq(StoredStates) /\ Len(results) \in ResultNos /\ Len(results) > 0
      /\ record \in CaseRecord /\ q0.status \in Statuses /\ q0.department \in Departments
  BY AnswerCarries, CaseFacts DEF ServerTypes
<1>2. record' \in CaseRecord
  BY <1>1, CasePageAssumption DEF Effect, CaseRecord
<1>3. results' \in Seq(StoredStates) /\ Len(results') \in ResultNos /\ Len(results') > 0
  <2>1. CASE results' = results
    BY <1>1, <2>1
  <2>2. CASE \E new \in {<<"completed">>, <<"failed">>, <<"completed", "failed">>} :
               Len(results \o new) <= Len(Suggested) /\ results' = results \o new
    <3>1. PICK new \in {<<"completed">>, <<"failed">>, <<"completed", "failed">>} :
            Len(results \o new) <= Len(Suggested) /\ results' = results \o new
      BY <2>2
    <3>2. new \in Seq(StoredStates) /\ Len(new) \in 1..2
      <4>1. "completed" \in StoredStates /\ "failed" \in StoredStates
        BY DEF StoredStates, ResultStates
      <4> QED BY <3>1, <4>1
    <3>3. /\ results \o new \in Seq(StoredStates)
          /\ Len(results \o new) = Len(results) + Len(new)
      BY <1>1, <3>2
    <3> QED BY <1>1, <3>1, <3>2, <3>3, CasePageAssumption DEF ResultNos
  <2>3. CASE results' = [results EXCEPT ![q0.resultNo] = "reviewed"]
    <3>1. "reviewed" \in StoredStates
      BY DEF StoredStates, ResultStates
    <3>2. PICK n \in Nat : n = Len(results)
      BY <1>1
    <3>3. results \in [1..n -> StoredStates]
      BY <1>1, <3>2
    <3>4. results' \in [1..n -> StoredStates]
      BY <2>3, <3>1, <3>3
    <3>5. results' \in Seq(StoredStates) /\ Len(results') = n
      BY <3>2, <3>4
    <3> QED BY <1>1, <3>2, <3>5
  <2> QED BY <2>1, <2>2, <2>3 DEF Effect
<1>4. Last(results') \in StoredStates
  BY <1>3 DEF Last
<1> QED BY <1>2, <1>3, <1>4

LEMMA ChangeTouches ==
  ASSUME CasePageInv, NEW change \in Changes, Touch(change),
         mine' = [p \in Parts |-> IF p \in TouchedBy(change) THEN version'[p] ELSE mine[p]]
  PROVE  /\ version' \in [Parts -> Nat] /\ mine' \in [Parts -> Nat] /\ NotOlder
         /\ \A p \in Parts : mine'[p] <= version'[p]
         /\ \A p \in Parts : IF p \in TouchedBy(change) THEN mine'[p] = version'[p]
                             ELSE mine'[p] = mine[p]
<1>1. version \in [Parts -> Nat] /\ mine \in [Parts -> Nat]
      /\ \A p \in Parts : mine[p] <= version[p]
  BY CaseFacts DEF ServerTypes
<1>2. version' = [p \in Parts |-> IF p \in TouchedBy(change) THEN version[p] + 1 ELSE version[p]]
  BY DEF Touch
<1>3. version' \in [Parts -> Nat] /\ \A p \in Parts : version[p] <= version'[p]
  BY <1>1, <1>2
<1>4. mine' \in [Parts -> Nat]
  BY <1>1, <1>3
<1>5. \A p \in Parts : IF p \in TouchedBy(change) THEN mine'[p] = version'[p]
                       ELSE mine'[p] = mine[p]
  OBVIOUS
<1>6. \A p \in Parts : mine'[p] <= version'[p]
  <2>1. ASSUME NEW p \in Parts PROVE mine'[p] <= version'[p]
    <3>1. /\ mine[p] \in Nat /\ version[p] \in Nat /\ version'[p] \in Nat
          /\ mine[p] <= version[p] /\ version[p] <= version'[p]
      BY <1>1, <1>3
    <3>2. mine'[p] = version'[p] \/ mine'[p] = mine[p]
      BY <1>5
    <3> QED BY <3>1, <3>2
  <2> QED BY <2>1
<1>7. NotOlder
  BY <1>3 DEF NotOlder
<1> QED BY <1>3, <1>4, <1>5, <1>6, <1>7

LEMMA ServeChangeKeeps ==
  ASSUME CasePageInv, NEW q0 \in posts, ServeChange(q0)
  PROVE  CasePageInv'
<1>1. /\ UNCHANGED <<pageVars, unseen, untold, scope, clicks, others>>
      /\ q0.code = 0 /\ q0 \in Post /\ ~left /\ PostTrue(q0) /\ q0.what \in Changes
      /\ mine' = [p \in Parts |-> IF p \in TouchedBy(q0.what) THEN version'[p] ELSE mine[p]]
  BY PostsOf DEF ServeChange
<1>2. PICK seen, no, state : seen = version'["triage"] /\ no = Len(results') /\ state = Last(results')
  OBVIOUS
<1>3. PICK code \in {1, 200, 500} :
        /\ Effect(q0, code) /\ Touch(q0.what)
        /\ posts' = (posts \ {q0}) \cup {Changed(q0, code, seen, no, state)}
  <2>1. PICK code \in {1, 200, 500} :
          /\ Effect(q0, code) /\ Touch(q0.what)
          /\ posts' = (posts \ {q0}) \cup {Reported(q0, code)}
    BY DEF ServeChange, Answered
  <2>2. Reported(q0, code) = Changed(q0, code, seen, no, state)
    BY <1>2 DEF Reported, Changed
  <2> QED BY <2>1, <2>2
<1>4. PICK a : a = Changed(q0, code, seen, no, state)
  OBVIOUS
<1>5. /\ version' \in [Parts -> Nat] /\ mine' \in [Parts -> Nat] /\ NotOlder
      /\ \A p \in Parts : mine'[p] <= version'[p]
      /\ \A p \in Parts : IF p \in TouchedBy(q0.what) THEN mine'[p] = version'[p]
                          ELSE mine'[p] = mine[p]
  BY <1>1, <1>3, ChangeTouches
<1>6. ServerTypes'
  BY <1>3, <1>5, EffectStored DEF ServerTypes
<1>7. seen \in Nat /\ no \in ResultNos /\ no # 0 /\ state \in ResultStates
  <2>1. seen \in Nat
    BY <1>2, <1>5, PartsAndChanges
  <2>2. no \in ResultNos /\ no # 0 /\ state \in ResultStates
    BY <1>2, <1>3, EffectStored DEF StoredStates
  <2> QED BY <2>1, <2>2
<1>8. /\ a \in Post /\ a.what = q0.what /\ a.change = q0.change /\ a.then = q0.then
      /\ a.code = code /\ a.seen = seen /\ a.resultNo = no /\ a.state = state /\ a.made
  <2>1. code \in PostCodes
    BY <1>3 DEF PostCodes
  <2> QED BY <1>1, <1>4, <1>7, <2>1, PostChanged
<1>9. PostTrue(a)'
  <2>1. a.what \notin Parts /\ a.code # 0 /\ a.resultNo # 0
    BY <1>1, <1>3, <1>7, <1>8, PartsAndChanges
  <2>2. a.seen <= version'["triage"]
    BY <1>2, <1>7, <1>8
  <2>3. a.change = a.what /\ a.then = ReloadsAfter(a.what)
    BY <1>1, <1>8 DEF PostTrue
  <2> QED BY <2>1, <2>2, <2>3 DEF PostTrue
<1>10. CaseFlags' /\ PageTypes' /\ FormsTrue'
  BY <1>1, <1>5, PageWaits
<1>11. (running' <=> running) /\ (saving' <=> saving) /\ left' = left
  BY <1>1 DEF pageVars
<1>12. PostsTrue' /\ ButtonsTrue'
  BY <1>3, <1>4, <1>5, <1>8, <1>9, <1>11, PostReplaced
<1>13. \A p \in Parts : Comes(p)'
  <2>1. SUFFICES ASSUME NEW p \in Parts PROVE Comes(p)'
    OBVIOUS
  <2>2. CASE p \in TouchedBy(q0.what)
    <3>1. CASE code # 200
      <4>1. Covers(a, p)'
        BY <1>1, <1>8, <2>2, <3>1 DEF Covers
      <4> QED BY <1>3, <1>4, <4>1 DEF Comes
    <3>2. CASE code = 200
      <4>1. p \in Elements(ReloadsAfter(q0.what)) \/ (q0.what = "run" /\ p = "triage")
        BY <1>1, <2>2, ReloadsShowTouched
      <4>2. Awaited(a) = Elements(ReloadsAfter(q0.what))
        BY <1>1, <1>8 DEF PostTrue, Awaited, Elements
      <4>3. q0.what = "run" /\ p = "triage" => a.seen >= mine'[p]
        BY <1>2, <1>5, <1>7, <1>8, <2>2
      <4>4. Covers(a, p)'
        BY <1>1, <1>8, <3>2, <4>1, <4>2, <4>3 DEF Covers
      <4> QED BY <1>3, <1>4, <4>4 DEF Comes
    <3> QED BY <1>3, <3>1, <3>2
  <2>3. CASE p \notin TouchedBy(q0.what)
    <3>1. mine'[p] = mine[p] /\ view' = view /\ unseen' = unseen /\ untold' = untold
      BY <1>1, <1>5, <2>3 DEF pageVars
    <3>2. ~Covers(q0, p)
      BY <1>1, WhatAChangeCovers DEF PostTrue
    <3>3. ASSUME NEW q \in posts \ {q0}, Covers(q, p)
          PROVE  Covers(q, p)' /\ q \in posts'
      BY <1>3, <3>1, <3>3 DEF Covers
    <3>4. Comes(p)
      BY <1>1, CaseFacts
    <3> QED BY <3>1, <3>2, <3>3, <3>4 DEF Comes, Settled
  <2> QED BY <2>2, <2>3
<1> QED BY <1>6, <1>10, <1>12, <1>13 DEF CasePageInv

LEMMA OthersChangeKeeps ==
  ASSUME CasePageInv, OthersChange
  PROVE  CasePageInv'
<1>1. /\ version' = [version EXCEPT !["case"] = @ + 1, !["activity"] = @ + 1]
      /\ record' \in CaseRecord
      /\ UNCHANGED <<results, pageVars, mine, unseen, untold, scope, clicks, posts>>
  BY DEF OthersChange, CaseRecord
<1>2. /\ version \in [Parts -> Nat] /\ "case" \in Parts /\ "activity" \in Parts
  BY CaseFacts DEF ServerTypes, Parts
<1>3. version' \in [Parts -> Nat] /\ \A p \in Parts : version[p] <= version'[p]
  BY <1>1, <1>2
<1>4. NotOlder
  BY <1>3 DEF NotOlder
<1>5. ServerTypes'
  <2>1. mine \in [Parts -> Nat] /\ \A p \in Parts : mine[p] <= version[p] /\ version[p] \in Nat
    BY CaseFacts DEF ServerTypes
  <2>2. \A p \in Parts : mine[p] <= version'[p]
    BY <1>3, <2>1
  <2> QED BY <1>1, <1>3, <2>1, <2>2, CaseFacts DEF ServerTypes
<1>6. CaseFlags' /\ PageTypes' /\ FormsTrue'
  BY <1>1, <1>4, PageWaits
<1>7. PostsTrue'
  BY <1>1, <1>4, PostStaysTrue, CaseFacts DEF PostsTrue
<1>8. ButtonsTrue'
  BY <1>1, CaseFacts DEF ButtonsTrue, ButtonsWaitForAnswers, OnlyOne, pageVars
<1>9. left' \/ \A p \in Parts : Comes(p)'
  BY <1>1, AllStayComing DEF pageVars
<1> QED BY <1>5, <1>6, <1>7, <1>8, <1>9 DEF CasePageInv

-----------------------------------------------------------------------------
(* The page of one case: the user.                                         *)

LEMMA UserActs ==
  ASSUME CasePageInv, Act
  PROVE  /\ ~left /\ left' = left /\ clicks' \in Nat /\ ServerTypes' /\ NotOlder
         /\ UNCHANGED <<version, record, results, view, shown, result, mine, unseen, untold, scope>>
<1>1. UNCHANGED <<serverVars, view, shown, result, left, mine, unseen, untold, scope, others>> /\ ~left
  BY DEF Act
<1>2. clicks' \in Nat
  BY CaseFacts DEF Act, PageTypes
<1> QED BY <1>1, <1>2, ServerStays DEF serverVars

LEMMA FormChangeKeeps ==
  ASSUME CasePageInv,
         (\E s \in Statuses : ChooseStatus(s)) \/ (\E d \in Departments : EditReview(d))
  PROVE  CasePageInv'
<1>1. Act /\ UNCHANGED <<running, saving, saved, posts>>
  BY DEF ChooseStatus, EditReview
<1>2. /\ ~left /\ left' = left /\ clicks' \in Nat /\ ServerTypes' /\ NotOlder
      /\ UNCHANGED <<version, record, results, view, shown, result, mine, unseen, untold, scope>>
  BY <1>1, UserActs
<1>3. /\ select' \in Statuses /\ form' \in Departments
      /\ \/ chosen' = TRUE \/ UNCHANGED <<select, chosen>>
      /\ \/ edited' = TRUE \/ UNCHANGED <<form, edited>>
  BY CaseFacts DEF ChooseStatus, EditReview, PageTypes
<1>4. CaseFlags'
  <2>1. chosen' \in BOOLEAN /\ edited' \in BOOLEAN
    BY <1>3, CaseFacts DEF CaseFlags
  <2> QED BY <1>1, <1>2, <2>1, CaseFacts DEF CaseFlags
<1>5. PageTypes'
  BY <1>2, <1>3, CaseFacts DEF PageTypes
<1>6. FormsTrue'
  <2>1. ~chosen' => select' = shown'.status
    BY <1>2, <1>3, CaseFacts DEF FormsTrue
  <2>2. result'.no # 0 /\ ~edited' => form' = Suggested[result'.no]
    BY <1>2, <1>3, CaseFacts DEF FormsTrue
  <2> QED BY <1>2, <2>1, <2>2, CaseFacts DEF FormsTrue
<1>7. PostsTrue'
  BY <1>1, <1>2, PostStaysTrue, CaseFacts DEF PostsTrue
<1>8. ButtonsTrue'
  BY <1>1, <1>2, CaseFacts DEF ButtonsTrue, ButtonsWaitForAnswers, OnlyOne
<1>9. left' \/ \A p \in Parts : Comes(p)'
  BY <1>1, <1>2, AllStayComing
<1> QED BY <1>2, <1>4, <1>5, <1>6, <1>7, <1>8, <1>9 DEF CasePageInv

\* A change is sent, as what the page shows and its forms say.
LEMMA SendingKeeps ==
  ASSUME CasePageInv, Act, NEW a \in Post, posts' = posts \cup {a}, a.what \in Changes,
         a.change = a.what, a.then = ReloadsAfter(a.what), a.code = 0, ~a.made,
         a.resultNo = 0 => a.state = "none",
         a.what = "review" =>
           (a.accepted => a.department = Suggested[a.resultNo]) /\ (~a.accepted => a.edited),
         a.change = "run" => ~running, running' <=> running \/ a.change = "run",
         a.change = "review" => ~saving, saving' <=> saving \/ a.change = "review",
         running' \in BOOLEAN, saving' \in BOOLEAN, saved' \in BOOLEAN, UNCHANGED formVars
  PROVE  CasePageInv'
<1>1. /\ ~left /\ left' = left /\ clicks' \in Nat /\ ServerTypes' /\ NotOlder
      /\ UNCHANGED <<version, record, results, view, shown, result, mine, unseen, untold, scope>>
  BY UserActs
<1>2. PostTrue(a)'
  BY PartsAndChanges DEF PostTrue
<1>3. PostsTrue' /\ ButtonsTrue'
  BY <1>1, <1>2, PostSent
<1>4. CaseFlags'
  BY <1>1, CaseFacts DEF CaseFlags, formVars
<1>5. PageTypes'
  BY <1>1, CaseFacts DEF PageTypes, formVars
<1>6. FormsTrue'
  BY <1>1, CaseFacts DEF FormsTrue, formVars
<1>7. left' \/ \A p \in Parts : Comes(p)'
  BY <1>1, AllStayComing
<1> QED BY <1>1, <1>3, <1>4, <1>5, <1>6, <1>7 DEF CasePageInv

\* The forms name their own bodies.
WithStatus(q, status) == [q EXCEPT !.status = status]
WithReview(q, no, accepted, department, ed) ==
  [q EXCEPT !.resultNo = no, !.accepted = accepted, !.department = department, !.edited = ed]

LEMMA StatusPost ==
  ASSUME NEW q \in Post, NEW status \in Statuses
  PROVE  LET a == WithStatus(q, status)
         IN  /\ a \in Post /\ a.what = q.what /\ a.change = q.change /\ a.then = q.then
             /\ a.code = q.code /\ a.resultNo = q.resultNo /\ a.state = q.state
             /\ a.made = q.made
BY DEF Post, WithStatus

LEMMA ReviewPost ==
  ASSUME NEW q \in Post, NEW no \in ResultNos, NEW accepted \in BOOLEAN,
         NEW department \in Departments, NEW ed \in BOOLEAN
  PROVE  LET a == WithReview(q, no, accepted, department, ed)
         IN  /\ a \in Post /\ a.what = q.what /\ a.change = q.change /\ a.then = q.then
             /\ a.code = q.code /\ a.resultNo = no /\ a.state = q.state
             /\ a.accepted = accepted /\ a.department = department /\ a.edited = ed
             /\ a.made = q.made
BY DEF Post, WithReview

LEMMA NewChange ==
  ASSUME CasePageInv, Act, NEW change \in Changes
  PROVE  LET a == Ask(change, change, clicks', ReloadsAfter(change))
         IN  /\ a \in Post /\ a.what = change /\ a.change = change
             /\ a.then = ReloadsAfter(change) /\ a.code = 0 /\ a.resultNo = 0
             /\ a.state = "none" /\ ~a.made
<1>1. /\ change \in PostKinds /\ change \in PostChanges /\ clicks' \in Nat
      /\ ReloadsAfter(change) \in Chains
  BY UserActs, ReloadsShowTouched DEF PostKinds, PostChanges
<1> QED BY <1>1, NewPost

LEMMA SubmitFormKeeps ==
  ASSUME CasePageInv, NEW change \in {"status", "note", "upload"}, SubmitForm(change)
  PROVE  CasePageInv'
<1>1. Act /\ UNCHANGED <<formVars, running, saving, saved>> /\ change \in Changes
      /\ change # "run" /\ change # "review"
  BY DEF SubmitForm, Changes
<1>2. PICK new : new = Ask(change, change, clicks', ReloadsAfter(change))
  OBVIOUS
<1>3. /\ new \in Post /\ new.what = change /\ new.change = change
      /\ new.then = ReloadsAfter(change) /\ new.code = 0 /\ new.resultNo = 0
      /\ new.state = "none" /\ ~new.made
  BY <1>1, <1>2, NewChange
<1>4. PICK a : a = WithStatus(new, select)
  OBVIOUS
<1>5. select \in Statuses /\ running \in BOOLEAN /\ saving \in BOOLEAN /\ saved \in BOOLEAN
  BY CaseFacts DEF PageTypes, CaseFlags
<1>6. /\ a \in Post /\ a.what = change /\ a.change = change
      /\ a.then = ReloadsAfter(change) /\ a.code = 0 /\ a.resultNo = 0
      /\ a.state = "none" /\ ~a.made
  BY <1>3, <1>4, <1>5, StatusPost
<1>7. posts' = posts \cup {a}
  BY <1>2, <1>4 DEF SubmitForm, Send, WithStatus
<1>8. /\ running' <=> running \/ a.change = "run"
      /\ saving' <=> saving \/ a.change = "review"
      /\ running' \in BOOLEAN /\ saving' \in BOOLEAN /\ saved' \in BOOLEAN
  BY <1>1, <1>5, <1>6
<1> QED BY <1>1, <1>6, <1>7, <1>8, SendingKeeps

LEMMA RunKeeps ==
  ASSUME CasePageInv, RunAITriage
  PROVE  CasePageInv'
<1>1. /\ Act /\ ~running /\ running' = TRUE /\ saved' = FALSE /\ "run" \in Changes
      /\ UNCHANGED <<formVars, saving>>
  BY PartsAndChanges DEF RunAITriage
<1>2. PICK a : a = Ask("run", "run", clicks', ReloadsAfter("run"))
  OBVIOUS
<1>3. /\ a \in Post /\ a.what = "run" /\ a.change = "run"
      /\ a.then = ReloadsAfter("run") /\ a.code = 0 /\ a.resultNo = 0
      /\ a.state = "none" /\ ~a.made
  BY <1>1, <1>2, NewChange
<1>4. posts' = posts \cup {a}
  BY <1>2 DEF RunAITriage, Send
<1>5. /\ running' <=> running \/ a.change = "run"
      /\ saving' <=> saving \/ a.change = "review"
      /\ running' \in BOOLEAN /\ saving' \in BOOLEAN /\ saved' \in BOOLEAN
  BY <1>1, <1>3, CaseFacts DEF CaseFlags
<1> QED BY <1>1, <1>3, <1>4, <1>5, SendingKeeps

\* A review says what the form showed: an unchanged form follows the suggestion.
LEMMA ReviewKeeps ==
  ASSUME CasePageInv, SubmitReview
  PROVE  CasePageInv'
<1>1. /\ Act /\ ~saving /\ saving' = TRUE /\ "review" \in Changes
      /\ result.state = "completed" /\ UNCHANGED <<formVars, running, saved>>
  BY PartsAndChanges DEF SubmitReview, FormOffered
<1>2. PICK new : new = Ask("review", "review", clicks', ReloadsAfter("review"))
  OBVIOUS
<1>3. /\ new \in Post /\ new.what = "review" /\ new.change = "review"
      /\ new.then = ReloadsAfter("review") /\ new.code = 0 /\ new.resultNo = 0
      /\ new.state = "none" /\ ~new.made
  BY <1>1, <1>2, NewChange
<1>4. PICK accepted \in BOOLEAN : accepted = (form = Suggested[result.no])
  OBVIOUS
<1>5. PICK a : a = WithReview(new, result.no, accepted, form, edited)
  OBVIOUS
<1>6. /\ result.no \in ResultNos /\ result.no # 0 /\ form \in Departments
      /\ edited \in BOOLEAN
      /\ (~edited => form = Suggested[result.no])
  BY <1>1, CaseFacts DEF PageTypes, CaseFlags, FormsTrue
<1>7. /\ a \in Post /\ a.what = "review" /\ a.change = "review"
      /\ a.then = ReloadsAfter("review") /\ a.code = 0 /\ a.resultNo = result.no
      /\ a.state = "none" /\ ~a.made /\ a.accepted = accepted /\ a.department = form /\ a.edited = edited
  <2>1. new \in Post /\ accepted \in BOOLEAN /\ edited \in BOOLEAN
    BY <1>3, <1>4, <1>6
  <2>2. LET b == WithReview(new, result.no, accepted, form, edited)
        IN  /\ b \in Post /\ b.what = new.what /\ b.change = new.change /\ b.then = new.then
            /\ b.code = new.code /\ b.resultNo = result.no /\ b.state = new.state
            /\ b.accepted = accepted /\ b.department = form /\ b.edited = edited
            /\ b.made = new.made
    <3>1. PICK no, d, ed : no = result.no /\ d = form /\ ed = edited
      OBVIOUS
    <3>2. no \in ResultNos /\ d \in Departments /\ ed \in BOOLEAN
      BY <1>6, <3>1
    <3>3. LET b == WithReview(new, no, accepted, d, ed)
          IN  /\ b \in Post /\ b.what = new.what /\ b.change = new.change /\ b.then = new.then
              /\ b.code = new.code /\ b.resultNo = no /\ b.state = new.state
              /\ b.accepted = accepted /\ b.department = d /\ b.edited = ed
              /\ b.made = new.made
      BY <2>1, <3>2, ReviewPost
    <3> QED BY <3>1, <3>3
  <2> QED BY <1>3, <1>5, <2>2, Zenon
<1>8. posts' = posts \cup {a}
  BY <1>2, <1>4, <1>5 DEF SubmitReview, Send, WithReview
<1>9. /\ a.accepted => a.department = Suggested[a.resultNo]
      /\ ~a.accepted => a.edited
  BY <1>4, <1>6, <1>7
<1>10. /\ running' <=> running \/ a.change = "run"
       /\ saving' <=> saving \/ a.change = "review"
       /\ running' \in BOOLEAN /\ saving' \in BOOLEAN /\ saved' \in BOOLEAN
  BY <1>1, <1>7, CaseFacts DEF CaseFlags
<1> QED BY <1>1, <1>7, <1>8, <1>9, <1>10, SendingKeeps

LEMMA CasePageStays ==
  ASSUME CasePageInv, UNCHANGED casePageVars
  PROVE  CasePageInv'
<1>1. UNCHANGED <<pageVars, unseen, untold, scope, clicks, serverVars, mine, posts>>
  BY DEF casePageVars
<1>2. ServerTypes' /\ NotOlder
  BY <1>1, ServerStays
<1>3. CaseFlags' /\ PageTypes' /\ FormsTrue'
  BY <1>1, <1>2, PageWaits
<1>4. PostsTrue'
  BY <1>1, <1>2, PostStaysTrue, CaseFacts DEF PostsTrue
<1>5. ButtonsTrue'
  BY <1>1, CaseFacts DEF ButtonsTrue, ButtonsWaitForAnswers, OnlyOne, pageVars
<1>6. left' \/ \A p \in Parts : Comes(p)'
  BY <1>1, AllStayComing DEF pageVars
<1> QED BY <1>2, <1>3, <1>4, <1>5, <1>6 DEF CasePageInv

LEMMA CaseStep ==
  ASSUME CasePageInv, CasePageNext \/ UNCHANGED casePageVars
  PROVE  CasePageInv'
<1>1. ASSUME NEW q \in posts, Serve(q) \/ Arrive(q)
      PROVE  CasePageInv'
  BY <1>1, DeclineKeeps, ServeLoadKeeps, ServeChangeKeeps, CasePageLeft, CaseReceived,
     PartReceived, ChangeReceived DEF Serve, Arrive
<1>2. ASSUME UpdateStatus \/ UploadDocument \/ AddNote
      PROVE  CasePageInv'
  BY <1>2, SubmitFormKeeps DEF UpdateStatus, UploadDocument, AddNote
<1>3. ASSUME RunAITriage \/ SubmitReview \/ OthersChange
      PROVE  CasePageInv'
  BY <1>3, RunKeeps, ReviewKeeps, OthersChangeKeeps
<1>4. ASSUME (\E s \in Statuses : ChooseStatus(s)) \/ (\E d \in Departments : EditReview(d))
      PROVE  CasePageInv'
  BY <1>4, FormChangeKeeps
<1>5. CASE CasePageNext
  <2>1. CASE \E q \in posts : Serve(q) \/ Arrive(q)
    BY <1>1, <2>1
  <2>2. CASE UpdateStatus \/ UploadDocument \/ AddNote
    BY <1>2, <2>2
  <2>3. CASE RunAITriage \/ SubmitReview \/ OthersChange
    BY <1>3, <2>3
  <2>4. CASE (\E s \in Statuses : ChooseStatus(s)) \/ (\E d \in Departments : EditReview(d))
    BY <1>4, <2>4
  <2> QED BY <1>5, <2>1, <2>2, <2>3, <2>4, Zenon DEF CasePageNext
<1> QED BY <1>5, CasePageStays

LEMMA CasePageBegins ==
  ASSUME NEW awaited \in {{}, {"case"}, {"triage"}}, CasePageInit(awaited)
  PROVE  CasePageInv
<1>1. /\ version = [p \in Parts |-> 1] /\ results = <<"completed">>
      /\ record \in [status : Statuses, department : {OwnDepartment}]
      /\ view = [p \in Parts |-> IF p \in awaited THEN 0 ELSE 1]
      /\ shown = record /\ select = record.status /\ chosen = FALSE
      /\ result = (IF "triage" \in awaited THEN [no |-> 0, state |-> "none"]
                   ELSE [no |-> 1, state |-> "completed"])
      /\ form = Suggested[1] /\ edited = FALSE
      /\ running = FALSE /\ saving = FALSE /\ saved = FALSE /\ left = FALSE
      /\ mine = [p \in Parts |-> 0] /\ unseen = {} /\ untold = {} /\ clicks = 0
      /\ posts = {Ask(p, "none", 0, <<>>) : p \in awaited}
  BY DEF CasePageInit
<1>2. /\ Suggested[1] \in Departments /\ Len(Suggested) \in Nat /\ Len(Suggested) > 0
      /\ OwnDepartment \in Departments
  BY CasePageAssumption
<1>3. ServerTypes
  <2>1. "completed" \in StoredStates
    BY DEF StoredStates, ResultStates
  <2>2. results \in Seq(StoredStates) /\ Len(results) = 1
    BY <1>1, <2>1
  <2>3. record \in CaseRecord
    BY <1>1, <1>2 DEF CaseRecord
  <2> QED BY <1>1, <1>2, <2>2, <2>3 DEF ServerTypes, ResultNos
<1>4. PageTypes
  <2>1. record \in CaseRecord /\ record.status \in Statuses
    BY <1>1, <1>2 DEF CaseRecord
  <2>2. result \in [no : ResultNos, state : ResultStates]
    BY <1>1, <1>2 DEF ResultNos, ResultStates
  <2>3. view \in [Parts -> Nat] /\ \A p \in Parts : view[p] <= version[p]
    BY <1>1
  <2> QED BY <1>1, <1>2, <2>1, <2>2, <2>3 DEF PageTypes
<1>5. CaseFlags
  BY <1>1 DEF CaseFlags
<1>6. FormsTrue
  BY <1>1 DEF FormsTrue
<1>7. ASSUME NEW q \in posts
      PROVE  q \in Post /\ PostTrue(q) /\ q.change = "none"
  <2>1. PICK p \in awaited : q = Ask(p, "none", 0, <<>>)
    BY <1>1
  <2>2. p \in Parts /\ p \in PostKinds /\ "none" \in PostChanges /\ <<>> \in Chains
    BY <2>1, PartsAndChanges DEF PostKinds, PostChanges, Chains
  <2>3. /\ q \in Post /\ q.what = p /\ q.change = "none" /\ q.code = 0
        /\ q.resultNo = 0 /\ q.state = "none" /\ ~q.made
    BY <2>1, <2>2, NewPost
  <2> QED BY <2>2, <2>3, PartsAndChanges DEF PostTrue
<1>8. PostsTrue /\ ButtonsTrue
  BY <1>1, <1>7 DEF PostsTrue, ButtonsTrue, ButtonsWaitForAnswers, OnlyOne
<1>9. \A p \in Parts : Comes(p)
  BY <1>1 DEF Comes, Settled
<1> QED BY <1>3, <1>4, <1>5, <1>6, <1>8, <1>9 DEF CasePageInv

LEMMA CasePageSound ==
  ASSUME CasePageInv
  PROVE  /\ CasePageTypeOK /\ ButtonsWaitForAnswers
         /\ FormsFollowWhatIsShown /\ OwnChangesShown
<1>1. CasePageTypeOK
  <2>1. {chosen, edited, running, saving, saved, left} \subseteq BOOLEAN
    BY CaseFacts DEF CaseFlags
  <2>2. /\ version \in [Parts -> Nat] /\ view \in [Parts -> Nat] /\ mine \in [Parts -> Nat]
        /\ \A p \in Parts : view[p] <= version[p] /\ mine[p] <= version[p]
        /\ record \in CaseRecord /\ shown \in CaseRecord /\ select \in Statuses
        /\ form \in Departments /\ unseen \subseteq Parts /\ untold \subseteq Parts
        /\ result \in [no : ResultNos, state : ResultStates]
    BY CaseFacts DEF ServerTypes, PageTypes
  <2>3. results \in Seq(StoredStates) /\ Len(results) <= Len(Suggested)
    BY CaseFacts, CasePageAssumption DEF ServerTypes, ResultNos
  <2>4. \A q \in posts : q.what \in PostKinds /\ q.code \in PostCodes
    BY PostsOf
  <2> QED BY <2>1, <2>2, <2>3, <2>4
          DEF CasePageTypeOK, CaseRecord, ResultNos, StoredStates, PostKinds, PostCodes
<1>2. ButtonsWaitForAnswers
  BY CaseFacts DEF ButtonsTrue
<1>3. FormsFollowWhatIsShown
  BY CaseFacts, PostsOf DEF FormsTrue, FormsFollowWhatIsShown, PostTrue
<1>4. OwnChangesShown
  BY CaseFacts DEF OwnChangesShown, Comes, Settled
<1> QED BY <1>1, <1>2, <1>3, <1>4

-----------------------------------------------------------------------------
(* The pages together.                                                     *)

WebInv ==
  /\ focus \in {"case", "intake", "staff"}
  /\ CasePageInv /\ IntakePageInv /\ StaffPagesInv

\* Whichever page is used, and in whatever order its answers come, what it
\* shows, what its forms say and what is on its way belong together.
THEOREM WebInvariant == Spec => []WebInv
<1>1. Init => WebInv
  <2> SUFFICES ASSUME Init PROVE WebInv
    OBVIOUS
  <2>1. \E awaited \in {{}, {"case"}, {"triage"}} : CasePageInit(awaited)
    BY DEF Init
  <2>2. CasePageInv
    BY <2>1, CasePageBegins
  <2>3. IntakePageInv /\ StaffPagesInv
    BY IntakeBegins, StaffBegins DEF Init
  <2> QED BY <2>2, <2>3 DEF WebInv, Init
<1>2. WebInv /\ [Next]_vars => WebInv'
  <2> SUFFICES ASSUME WebInv, [Next]_vars PROVE WebInv'
    OBVIOUS
  <2>1. /\ CasePageNext \/ UNCHANGED casePageVars
        /\ IntakePageNext \/ UNCHANGED intakePageVars
        /\ StaffPagesNext \/ UNCHANGED staffVars
        /\ focus' = focus
    BY DEF Next, vars
  <2>2. CasePageInv'
    BY <2>1, CaseStep DEF WebInv
  <2>3. IntakePageInv'
    BY <2>1, IntakeStep DEF WebInv
  <2>4. StaffPagesInv'
    BY <2>1, StaffStep DEF WebInv
  <2> QED BY <2>1, <2>2, <2>3, <2>4 DEF WebInv
<1> QED BY <1>1, <1>2, PTL DEF Spec

\* The forms of the case page follow what it shows until the user changes them,
\* so that only an edited form can make a review a correction.
THEOREM FormsAlwaysFollow == Spec => []FormsFollowWhatIsShown
<1>1. WebInv => FormsFollowWhatIsShown
  BY CasePageSound DEF WebInv
<1> QED BY <1>1, WebInvariant, PTL

\* At rest the case page shows the user's own changes, or a load of the part
\* failed or came out of turn, or the change was never reported as made.
THEOREM OwnChangesAlwaysShown == Spec => []OwnChangesShown
<1>1. WebInv => OwnChangesShown
  BY CasePageSound DEF WebInv
<1> QED BY <1>1, WebInvariant, PTL

\* What the public page shows for a municipality is of the one selected, unless
\* the municipality was changed under a request.
THEOREM MunicipalitiesAlwaysAgree == Spec => []MunicipalitiesAgree
<1>1. WebInv => MunicipalitiesAgree
  BY DEF WebInv, IntakePageInv
<1> QED BY <1>1, WebInvariant, PTL

\* The public page keeps the code it has shown and the answer last asked for.
THEOREM AnswersAlwaysShown == Spec => []AnswersShown
<1>1. WebInv => AnswersShown
  BY DEF WebInv, IntakePageInv, AnswersShown
<1> QED BY <1>1, WebInvariant, PTL

\* At rest a staff page shows what was asked of it last and its user's changes,
\* but for a load that failed or was overtaken by an older one, and a change that
\* was never reported as made.
THEOREM ListsAlwaysShow == Spec => []ListsShowWhatWasAsked
<1>1. WebInv => ListsShowWhatWasAsked
  BY StaffPagesSound DEF WebInv
<1> QED BY <1>1, WebInvariant, PTL

\* Every page is in a state its code knows, never has two changes on their way
\* that exclude each other, and its buttons wait exactly as long as the call and
\* the load that ends it.
THEOREM PagesAlwaysWellFormed == Spec => []PagesWellFormed
<1>1. WebInv => PagesWellFormed
  BY CasePageSound, StaffPagesSound DEF WebInv, IntakePageInv, PagesWellFormed, TypeOK
<1> QED BY <1>1, WebInvariant, PTL

=============================================================================
