------------------------------ MODULE StaffPages ------------------------------
(***************************************************************************)
(* The staff pages with a list or a summary: cases-dashboard, which loads  *)
(* as soon as a status is chosen, audit-dashboard, whose filters are       *)
(* applied or cleared, analytics-dashboard, which rebuilds a range and     *)
(* then loads it, and privacy-dashboard, whose calls exclude each other.   *)
(*                                                                         *)
(* None of their loads is cancelled by the next.  The search box of the    *)
(* case list, which filters what is shown, and all wording are left out.   *)
(***************************************************************************)
EXTENDS Naturals, FiniteSets

CONSTANTS
  Filters,         \* statuses, audit filters or date ranges
  Everything,      \* the filter of a page just opened
  MaxStaffClicks

ASSUME StaffPagesAssumption == Everything \in Filters

VARIABLES
  pageKind,     \* "cases", "audit", "analytics" or "privacy"
  draft,        \* the filter in the form, or in the address of the page
  list,         \* what is shown: for which filter, asked when, of what version
  failed,       \* the error message
  busy,         \* isAggregating, isWorking
  away,         \* the page was left for the login page
  data,         \* the version of the snapshots, or of the retention policy
  wanted,       \* the filter the user asked for last, and when
  own,          \* the version the user's last change made
  missed,       \* the load wanted last failed, or an older one was answered after it
  unreported,   \* the user's last change was made and not reported as made
  asks,         \* the requests and answers on their way
  staffClicks

staffVars == <<pageKind, draft, list, failed, busy, away, data, wanted, own, missed,
               unreported, asks, staffClicks>>

Kinds == {"cases", "audit", "analytics", "privacy"}
OfficerCalls == {"export", "anonymise", "cleanup", "update"}
ChangingCalls == {"aggregate", "update"}

\* A request: chain tells the load that ends a rebuild, and made, of a change,
\* whether the API has made it, in whole or in part.
Query(what, filter, no) ==
  [what |-> what, filter |-> filter, no |-> no, chain |-> FALSE, made |-> FALSE,
   code |-> 0, seen |-> 0]

\* The page has just been opened; privacy-dashboard asks for its status first.
StaffPagesInit ==
  /\ pageKind \in Kinds
  /\ draft = Everything
  /\ list = [filter |-> Everything, no |-> 0, seen |-> 0]
  /\ failed = FALSE /\ away = FALSE
  /\ busy = (pageKind = "privacy")
  /\ data = 1
  /\ wanted = [filter |-> Everything, no |-> 0]
  /\ own = 0 /\ missed = FALSE /\ unreported = FALSE
  /\ asks = {Query(IF pageKind = "privacy" THEN "status" ELSE "list", Everything, 0)}
  /\ staffClicks = 0

StaffPagesTypeOK ==
  /\ draft \in Filters /\ wanted.filter \in Filters /\ list.filter \in Filters
  /\ {failed, busy, away, missed, unreported} \subseteq BOOLEAN
  /\ list.seen <= data /\ own <= data
  /\ \A q \in asks :
       q.what \in {"list", "status", "policy", "aggregate"} \cup OfficerCalls

-----------------------------------------------------------------------------
(* The user.                                                               *)

ClickOn(kind) ==
  /\ pageKind = kind /\ ~away
  /\ staffClicks < MaxStaffClicks /\ staffClicks' = staffClicks + 1

\* A list is asked for; from now on only its answer will do.
AskList(filter) ==
  /\ asks' = asks \cup {Query("list", filter, staffClicks')}
  /\ wanted' = [filter |-> filter, no |-> staffClicks']
  /\ missed' = FALSE

\* cases-dashboard: the new address of the page starts the load.
ChooseFilter(f) ==
  /\ ClickOn("cases") /\ f # draft
  /\ draft' = f
  /\ AskList(f)
  /\ UNCHANGED <<pageKind, list, failed, busy, away, data, own, unreported>>

EditFilter(f) ==
  /\ ClickOn(pageKind) /\ pageKind \in {"audit", "analytics"} /\ f # draft
  /\ draft' = f
  /\ UNCHANGED <<pageKind, list, failed, busy, away, data, wanted, own, missed, unreported,
                 asks>>

ApplyFilters ==
  /\ ClickOn("audit")
  /\ failed' = FALSE
  /\ AskList(draft)
  /\ UNCHANGED <<pageKind, draft, list, busy, away, data, own, unreported>>

\* Mutant: the load still sees the filters that are being cleared.
ClearFiltersStale ==
  /\ ClickOn("audit")
  /\ draft' = Everything /\ failed' = FALSE
  /\ asks' = asks \cup {Query("list", draft, staffClicks')}
  /\ wanted' = [filter |-> Everything, no |-> staffClicks'] /\ missed' = FALSE
  /\ UNCHANGED <<pageKind, list, busy, away, data, own, unreported>>

\* clearFilters names the cleared filters, for the state still has the old ones.
ClearFilters ==
  /\ ClickOn("audit")
  /\ draft' = Everything /\ failed' = FALSE
  /\ AskList(Everything)
  /\ UNCHANGED <<pageKind, list, busy, away, data, own, unreported>>

\* aggregate, for the range in the form.
Aggregate ==
  /\ ClickOn("analytics") /\ ~busy
  /\ busy' = TRUE /\ failed' = FALSE
  /\ asks' = asks \cup {Query("aggregate", draft, staffClicks')}
  /\ UNCHANGED <<pageKind, draft, list, away, data, wanted, own, missed, unreported>>

\* callPrivacy of exportData, anonymize, retentionCleanup and updatePolicy.
CallPrivacy(what) ==
  /\ ClickOn("privacy") /\ ~busy
  /\ busy' = TRUE /\ failed' = FALSE
  /\ asks' = asks \cup {Query(what, draft, staffClicks')}
  /\ UNCHANGED <<pageKind, draft, list, away, data, wanted, own, missed, unreported>>

-----------------------------------------------------------------------------
(* The API.  Code 1 stands for an answer that never arrives.               *)

\* A change may be made and the event after it fail (privacy.service.ts), and a
\* rebuild stop at a later day: then it is made and answered with an error.
AnswerAsk(q) ==
  /\ q.code = 0
  /\ \/ /\ q.what \in ChangingCalls
        /\ data' = data + 1 /\ own' = data'
        /\ \E code \in {1, 200, 500} :
             asks' = (asks \ {q})
                \cup {[q EXCEPT !.code = code, !.seen = data', !.made = TRUE]}
     \/ /\ q.what \notin ChangingCalls
        /\ asks' = (asks \ {q}) \cup {[q EXCEPT !.code = 200, !.seen = data]}
        /\ UNCHANGED <<data, own>>
     \/ /\ \E code \in {1, 401, 500} : asks' = (asks \ {q}) \cup {[q EXCEPT !.code = code]}
        /\ UNCHANGED <<data, own>>
  /\ UNCHANGED <<pageKind, draft, list, failed, busy, away, wanted, missed, unreported,
                 staffClicks>>

\* Other employees rebuild snapshots and change the policy, too.
OthersRebuild ==
  /\ data = 1
  /\ data' = data + 1
  /\ UNCHANGED <<pageKind, draft, list, failed, busy, away, wanted, own, missed, unreported,
                 asks, staffClicks>>

Got(q, what) == q.what = what /\ q.code \in {1, 200, 500}

\* All pages send whoever is not signed in to the login page (see InternalTabs).
LeaveStaffPage(q) ==
  /\ q.code = 401
  /\ away' = TRUE /\ asks' = {}
  /\ UNCHANGED <<pageKind, draft, list, failed, busy, data, wanted, own, missed, unreported,
                 staffClicks>>

\* What became of a change: only an answer that it went well tells the user.
Told(q) == unreported' = IF q.made THEN q.code # 200 ELSE unreported

\* What loadCases, loadEvents and loadSummary make of the answer.  Only loadCases
\* has a catch.
ShowList(q) ==
  /\ Got(q, "list")
  /\ asks' = asks \ {q}
  /\ IF q.code = 200
     THEN /\ list' = [filter |-> q.filter, no |-> q.no, seen |-> q.seen]
          /\ missed' = (missed \/ \A a \in asks : a.what = "list" => a.no # wanted.no)
          /\ UNCHANGED failed
     ELSE /\ failed' = (failed \/ q.code = 500 \/ pageKind = "cases")
          /\ missed' = (missed \/ q.no = wanted.no)
          /\ UNCHANGED list
  /\ UNCHANGED <<pageKind, draft, away, data, wanted, own, unreported, staffClicks>>

\* Mutant: the first list that comes after a rebuild gives the button back.
ReceiveListFrees(q) ==
  /\ ShowList(q)
  /\ busy' = (busy /\ \E a \in asks : a.what = "aggregate")

\* aggregate is over, in its finally, when its own load is.
ReceiveList(q) ==
  /\ ShowList(q)
  /\ busy' = (busy /\ ~q.chain)

\* The rest of aggregate: the range of the click is loaded.
ReceiveAggregate(q) ==
  /\ Got(q, "aggregate")
  /\ Told(q)
  /\ IF q.code = 200
     THEN /\ asks' = (asks \ {q})
               \cup {[Query("list", q.filter, q.no) EXCEPT !.chain = TRUE]}
          /\ wanted' = [filter |-> q.filter, no |-> q.no]
          /\ missed' = FALSE /\ failed' = FALSE
          /\ UNCHANGED busy
     ELSE /\ asks' = asks \ {q}
          /\ busy' = FALSE
          /\ failed' = (failed \/ q.code = 500)
          /\ UNCHANGED <<wanted, missed>>
  /\ UNCHANGED <<pageKind, draft, list, away, data, own, staffClicks>>

\* loadPrivacyContext: the policy is asked for whatever became of the status,
\* unless the call itself threw.
ReceiveStatus(q) ==
  /\ Got(q, "status")
  /\ IF q.code = 1
     THEN asks' = asks \ {q} /\ busy' = FALSE /\ UNCHANGED failed
     ELSE /\ asks' = (asks \ {q}) \cup {Query("policy", q.filter, q.no)}
          /\ failed' = FALSE
          /\ UNCHANGED busy
  /\ UNCHANGED <<pageKind, draft, list, away, data, wanted, own, missed, unreported,
                 staffClicks>>

\* The policy, or the answer to an officer's call, which is shown as it is.
ReceiveOfficerAnswer(q) ==
  /\ q.what \in {"policy"} \cup OfficerCalls /\ q.code \in {1, 200, 500}
  /\ Told(q)
  /\ asks' = asks \ {q}
  /\ busy' = FALSE
  /\ failed' = (failed \/ q.code = 500)
  /\ list' = IF q.what \in {"policy", "update"} /\ q.code = 200
             THEN [list EXCEPT !.seen = q.seen] ELSE list
  /\ UNCHANGED <<pageKind, draft, away, data, wanted, own, missed, staffClicks>>

StaffPagesNext ==
  \/ \E f \in Filters : ChooseFilter(f) \/ EditFilter(f)
  \/ ApplyFilters \/ ClearFilters \/ Aggregate \/ OthersRebuild
  \/ \E what \in OfficerCalls : CallPrivacy(what)
  \/ \E q \in asks :
       \/ AnswerAsk(q) \/ LeaveStaffPage(q) \/ ReceiveList(q) \/ ReceiveAggregate(q)
       \/ ReceiveStatus(q) \/ ReceiveOfficerAnswer(q)

-----------------------------------------------------------------------------
(* Properties.                                                             *)

\* When nothing is awaited the list or summary is of the filter the user asked
\* for last, unless that load failed or an older one was answered after it.
ListIsAskedFor ==
  asks = {} /\ ~away /\ pageKind # "privacy" => list.filter = wanted.filter \/ missed

\* A range that was rebuilt, and a policy that was changed, is shown as it is
\* after the change, unless its load failed or an older one was answered after
\* it, or the page was never told that the change was made: its answer was lost,
\* or an error for what came after the write.
OwnChangeIsShown ==
  asks = {} /\ ~away => list.seen >= own \/ missed \/ unreported

\* At rest a staff page shows what was asked of it last, and the user's changes.
ListsShowWhatWasAsked == ListIsAskedFor /\ OwnChangeIsShown

\* What keeps the buttons of a page disabled: a rebuild with the load that ends
\* it, or a privacy call.
Working(q) == q.what # "list" \/ q.chain

\* aggregate and callPrivacy: a page never has two rebuilds, or two privacy
\* calls, cleanups among them, on their way; and its buttons wait exactly as
\* long as the call, and the load that ends it, whatever else is answered.
OneChangeAtATime ==
  /\ Cardinality({q \in asks : Working(q)}) <= 1
  /\ ~away => (busy <=> \E q \in asks : Working(q))

=============================================================================
