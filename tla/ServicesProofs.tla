--------------------------- MODULE ServicesProofs ---------------------------
(***************************************************************************)
(* Proofs about the services beside the cases: the AI providers, the       *)
(* address lookups, the population imports and the demo reset, for any     *)
(* number of calls, lookups, imports and overlapping resets.               *)
(*                                                                         *)
(* Each has a specification and an invariant of its own; MCServices, where *)
(* one of them goes on at a time, implements every one of them.            *)
(***************************************************************************)
EXTENDS MCServices, PublicIntakeProofs, WellFoundedInduction

-----------------------------------------------------------------------------
(* The invariants.                                                         *)

\* OpenAIProvider: what a call waits for, and what its attempts met.
Passing == {"abort", "retryable"}

CallTrue(c) ==
  /\ c \in fetching =>
       /\ outcome[c] = "none" /\ Len(met[c]) < MaxAttempts /\ c \notin reading
       /\ \A i \in 1..Len(met[c]) : met[c][i] \in Passing
  /\ c \in reading =>
       /\ outcome[c] = "none" /\ Len(met[c]) > 0 /\ met[c][Len(met[c])] \in Statuses
  /\ outcome[c] = "none" /\ c \notin fetching \cup reading => met[c] = <<>>

ProviderInv ==
  /\ ProviderTypeOK /\ RetriesAndClassesAgree
  /\ \A c \in Calls : CallTrue(c)

\* KartverketAddressService.search: why it is where it is.
Unaudited(l) == l \in EmployeeLookups \ searches
Failing(l) == reply[l] \notin Usable \/ Unaudited(l)

LookupTrue(l) ==
  /\ lookup[l] \in {"idle", "fetch", "success"} => \A e \in HealthEvents : <<l, e>> \notin health
  /\ lookup[l] \in {"success", "audit", "results"} => reply[l] \in Usable
  /\ lookup[l] = "audit" => l \in EmployeeLookups
  /\ l \in searches => lookup[l] = "results"
  /\ lookup[l] \in {"audit", "results"} =>
       \A e \in HealthEvents \ {"success"} : <<l, e>> \notin health
  /\ lookup[l] = "failure" => Failing(l)
  /\ reply[l] \notin Usable => <<l, "success">> \notin health
  /\ lookup[l] = "unavailable" => Failing(l)

LookupInv == LookupTypeOK /\ \A l \in Lookups : LookupTrue(l)

\* An import that has stored figure k.
Stored(i, k) == fetched[i] # 0 /\ k \in held[i] \ left[i]

\* What the import has reached says what it has stored and marked.
ImportTrue(i) ==
  /\ importing[i] \in {"idle", "fetch"} => fetched[i] = 0 /\ left[i] = {} /\ held[i] = {}
  /\ importing[i] \in {"upsert", "complete", "success", "done"} => fetched[i] # 0
  /\ importing[i] \in {"complete", "success", "done"} => left[i] = {}
  /\ importRuns[i] = "completed" => fetched[i] # 0 /\ left[i] = {}
  /\ importing[i] = "idle" => importRuns[i] = "none"
  /\ importing[i] = "fetch" => order[i] \in Order
  /\ importing[i] = "done" => importRuns[i] = "completed"
  /\ importing[i] = "success" => importRuns[i] = "completed"
  /\ importing[i] = "failure" => importRuns[i] = "failed"
  /\ importing[i] = "commit" => i \in EltImports /\ fetched[i] # 0
  /\ <<i, "success">> \in importHealth => importing[i] = "done"
  /\ <<i, "failed">> \in importHealth => importing[i] = "rejected" /\ importRuns[i] = "failed"
  /\ i \in EltImports =>
       /\ importing[i] \in {"idle", "fetch", "commit", "done", "rejected", "dead"}
       /\ importRuns[i] \in {"none", "completed"}
  /\ left[i] \subseteq held[i]

\* A figure was stored by an import that had fetched it; what an import has
\* stored is not lost again.
FiguresKnown ==
  /\ \A k \in Figures : statistics[k] # 0 =>
       \E j \in Imports : fetched[j] = statistics[k] /\ Stored(j, k)
  /\ \A i \in Imports : \A k \in Figures : Stored(i, k) => statistics[k] # 0

ImportInv ==
  ImportTypeOK /\ FiguresKnown /\ StartedRunsExplained /\ \A i \in Imports : ImportTrue(i)

\* What a reset has put back of the seed case it is at.
PutBack(r, s) ==
  CASE reset[r] = "mails" /\ s \in halfDone[r] -> {"triage"}
    [] reset[r] = "audit" /\ s \in halfDone[r] -> {"triage", "mails"}
    [] OTHER -> {}

\* Some reset will bring the records of the case that are missing, and has not
\* lost those it brought.
SeedsKnown ==
  \A s \in SeedCases :
    \/ Records \subseteq activity[s]
    \/ \E r \in ResetRuns :
         /\ RestoringOrFailed(r) /\ s \in toRestore[r]
         /\ PutBack(r, s) \subseteq activity[s]

\* What a reset has listed, and still has to remove, is what was stored then.
ResetTrue(r) ==
  /\ reset[r] = "idle" => listed[r] = {}
  /\ reset[r] \in {"idle", "transaction"} => toRemove[r] = {}
  /\ reset[r] \in {"idle", "transaction", "files"} => halfDone[r] = {}
  /\ \A s, t \in halfDone[r] : s = t
  /\ toRemove[r] \subseteq listedDocs[r]
  /\ toRemove[r] # {} => listed[r] \cap visitorRows = {}
  /\ \A d \in listedDocs[r] : upload[d] = "stored" /\ CaseOf[d] \in listed[r]

UploadsKnown ==
  /\ \A d \in docRows : upload[d] = "stored" /\ CaseOf[d] \in visitorRows
  /\ \A d \in Uploads : upload[d] = "written" => d \in disk

ResetInv ==
  /\ ResetTypeOK /\ ResetExplained /\ SeedsKnown /\ UploadsKnown
  /\ \A r \in ResetRuns : ResetTrue(r)

-----------------------------------------------------------------------------
(* TriageProvider                                                          *)

ProviderSpec ==
  ProviderInit /\ [][\E c \in Calls : BeginCall(c) \/ CallSettles(c)]_providerVars

LEMMA AppendFacts ==
  ASSUME NEW S, NEW q \in Seq(S), NEW e \in S
  PROVE  /\ Append(q, e) \in Seq(S) /\ Len(Append(q, e)) = Len(q) + 1 /\ Len(q) \in Nat
         /\ \A i \in 1..Len(q) : Append(q, e)[i] = q[i]
         /\ Append(q, e)[Len(q) + 1] = e
OBVIOUS

\* What RetriesAndClassesAgree says of one call.
CallAgrees(c) ==
  /\ Len(met[c]) <= MaxAttempts
  /\ \A i \in 1..(Len(met[c]) - 1) : met[c][i] \in {"abort", "retryable"}
  /\ (outcome[c] = "timeout") <=>
       (Len(met[c]) = MaxAttempts /\ met[c][MaxAttempts] = "abort")
  /\ outcome[c] = "completed" /\ c \notin MockCalls => Last(met[c]) = "ok"

LEMMA ProviderInitInv == ProviderInit => ProviderInv
<1> SUFFICES ASSUME ProviderInit PROVE ProviderInv  OBVIOUS
<1>1. ProviderTypeOK
  BY DEF ProviderInit, ProviderTypeOK, Outcomes
<1>2. ASSUME NEW c \in Calls
      PROVE  CallTrue(c) /\ CallAgrees(c)
  <2>1. met[c] = <<>> /\ outcome[c] = "none" /\ Len(met[c]) = 0 /\ c \notin fetching \cup reading
    BY DEF ProviderInit
  <2>2. MaxAttempts \in Nat \ {0}
    BY CallsAssumption
  <2> QED BY <2>1, <2>2 DEF CallTrue, CallAgrees
<1> QED BY <1>1, <1>2 DEF ProviderInv, CallAgrees, RetriesAndClassesAgree

\* A step of one call leaves the others as they are.
LEMMA OtherCalls ==
  ASSUME ProviderInv, ProviderTypeOK', NEW c \in Calls,
         \A d \in Calls \ {c} :
           /\ met'[d] = met[d] /\ outcome'[d] = outcome[d]
           /\ d \in fetching' <=> d \in fetching
           /\ d \in reading' <=> d \in reading,
         CallTrue(c)', CallAgrees(c)'
  PROVE  ProviderInv'
<1>1. ASSUME NEW d \in Calls \ {c}
      PROVE  CallTrue(d)' /\ CallAgrees(d)'
  <2>1. CallTrue(d) /\ CallAgrees(d)
    BY DEF ProviderInv, RetriesAndClassesAgree, CallAgrees
  <2> QED BY <2>1, <1>1 DEF CallTrue, CallAgrees
<1> QED BY <1>1 DEF ProviderInv, RetriesAndClassesAgree, CallAgrees

LEMMA BeginCallKeeps ==
  ASSUME ProviderInv, NEW c \in Calls, BeginCall(c)
  PROVE  ProviderInv'
<1>1. ProviderTypeOK /\ CallTrue(c) /\ CallAgrees(c)
  BY DEF ProviderInv, RetriesAndClassesAgree, CallAgrees
<1>2. MaxAttempts \in Nat \ {0}
  BY CallsAssumption
<1>3. /\ c \notin fetching \cup reading /\ met' = met /\ met[c] = <<>> /\ Len(met[c]) = 0
      /\ outcome[c] = "none" /\ reading' = reading
  BY DEF BeginCall, NotConfigured, SendFirst, AskMock, Fresh
<1>4. CASE SendFirst(c)
  <2>1. fetching' = fetching \cup {c} /\ outcome' = outcome /\ c \notin MockCalls
    BY <1>4 DEF SendFirst
  <2>2. ProviderTypeOK'
    BY <1>1, <1>3, <1>4, <2>1 DEF SendFirst, ProviderTypeOK
  <2>3. CallTrue(c)' /\ CallAgrees(c)'
    BY <1>1, <1>2, <1>3, <2>1 DEF CallTrue, CallAgrees
  <2> QED BY <1>3, <2>1, <2>2, <2>3, OtherCalls
<1>5. CASE NotConfigured(c) \/ \E input \in MockInputs : AskMock(c, input)
  <2>1. /\ fetching' = fetching /\ DOMAIN suggested' = DOMAIN suggested
        /\ \/ outcome' = [outcome EXCEPT ![c] = "provider_error"]
           \/ c \in MockCalls /\ outcome' = [outcome EXCEPT ![c] = "completed"]
    BY <1>5 DEF NotConfigured, AskMock, Settle
  <2>2. ProviderTypeOK'
    BY <1>1, <1>3, <2>1 DEF ProviderTypeOK, Outcomes, Failures
  <2>3. /\ \A d \in Calls \ {c} : outcome'[d] = outcome[d]
        /\ outcome'[c] = "provider_error" \/ (outcome'[c] = "completed" /\ c \in MockCalls)
    BY <1>1, <2>1 DEF ProviderTypeOK
  <2>4. CallTrue(c)' /\ CallAgrees(c)'
    BY <1>1, <1>2, <1>3, <2>1, <2>3 DEF CallTrue, CallAgrees
  <2> QED BY <1>3, <2>1, <2>2, <2>3, <2>4, OtherCalls
<1> QED BY <1>4, <1>5 DEF BeginCall

\* An attempt ends: one more entry, and the call goes on only after one that may
\* pass, when there is an attempt left.
LEMMA AttemptKeeps ==
  ASSUME ProviderInv, NEW c \in fetching, NEW e \in Statuses \cup Errors,
         \/ Answered(c, e) /\ e \in Statuses
         \/ Rejected(c, e) /\ e \in Errors
  PROVE  ProviderInv'
<1>1. ProviderTypeOK /\ CallTrue(c) /\ CallAgrees(c) /\ c \in Calls \ MockCalls
  BY DEF ProviderInv, RetriesAndClassesAgree, CallAgrees, ProviderTypeOK
<1>2. MaxAttempts \in Nat \ {0}
  BY CallsAssumption
<1>3. /\ met[c] \in Seq(Statuses \cup Errors) /\ Len(met[c]) \in Nat
      /\ Len(met[c]) < MaxAttempts /\ outcome[c] = "none" /\ c \notin reading
      /\ \A i \in 1..Len(met[c]) : met[c][i] \in Passing
  BY <1>1, AppendFacts DEF ProviderTypeOK, CallTrue
<1>4. met' = [met EXCEPT ![c] = Append(met[c], e)]
  BY <1>1 DEF Answered, Rejected, ProviderTypeOK
<1> DEFINE longer == Append(met[c], e)
<1>5. /\ longer \in Seq(Statuses \cup Errors) /\ Len(longer) = Len(met[c]) + 1
      /\ \A i \in 1..Len(met[c]) : longer[i] = met[c][i]
      /\ longer[Len(met[c]) + 1] = e
  BY <1>3, AppendFacts
<1> HIDE DEF longer
<1>6. /\ met' \in [Calls -> Seq(Statuses \cup Errors)] /\ met'[c] = longer
      /\ \A d \in Calls \ {c} : met'[d] = met[d]
  BY <1>1, <1>4, <1>5 DEF ProviderTypeOK, longer
<1>7. \A i \in 1..(Len(met'[c]) - 1) : met'[c][i] \in Passing
  BY <1>3, <1>5, <1>6
<1>8. Len(met'[c]) \in Nat /\ Len(met'[c]) <= MaxAttempts /\ met'[c][Len(met'[c])] = e
  BY <1>2, <1>3, <1>5, <1>6
<1>9. LastAttempt(c) <=> Len(met'[c]) = MaxAttempts
  BY <1>5, <1>6 DEF LastAttempt
<1>10. CASE Answered(c, e) /\ e \in Statuses
  <2>1. e # "abort" /\ outcome' = outcome /\ suggested' = suggested
    BY <1>10 DEF Answered, Statuses
  <2>2. CASE Retryable(e) /\ ~LastAttempt(c)
    <3>1. fetching' = fetching /\ reading' = reading /\ e \in Passing
      BY <1>10, <2>2 DEF Answered, Retryable, Passing
    <3>2. ProviderTypeOK'
      BY <1>1, <1>6, <2>1, <3>1 DEF ProviderTypeOK
    <3>3. Len(met'[c]) < MaxAttempts
      BY <1>2, <1>8, <1>9, <2>2
    <3>4. \A i \in 1..Len(met'[c]) : met'[c][i] \in Passing
      BY <1>7, <1>8, <3>1
    <3>5. CallTrue(c)'
      BY <1>3, <2>1, <3>1, <3>3, <3>4 DEF CallTrue
    <3>6. CallAgrees(c)'
      BY <1>2, <1>3, <1>7, <1>8, <2>1, <3>3 DEF CallAgrees, Passing
    <3> QED BY <1>1, <1>6, <2>1, <3>1, <3>2, <3>5, <3>6, OtherCalls
  <2>3. CASE ~(Retryable(e) /\ ~LastAttempt(c))
    <3>1. fetching' = fetching \ {c} /\ reading' = reading \cup {c}
      BY <1>10, <2>3 DEF Answered
    <3>2. ProviderTypeOK'
      BY <1>1, <1>6, <2>1, <3>1 DEF ProviderTypeOK
    <3>3. Len(met'[c]) > 0
      BY <1>3, <1>5, <1>6
    <3>4. CallTrue(c)'
      BY <1>3, <1>8, <1>10, <2>1, <3>1, <3>3 DEF CallTrue
    <3>5. CallAgrees(c)'
      BY <1>2, <1>3, <1>7, <1>8, <2>1 DEF CallAgrees, Passing
    <3> QED BY <1>1, <1>6, <2>1, <3>1, <3>2, <3>4, <3>5, OtherCalls
  <2> QED BY <2>2, <2>3
<1>11. CASE Rejected(c, e) /\ e \in Errors
  <2>1. reading' = reading /\ suggested' = suggested
    BY <1>11 DEF Rejected
  <2>2. CASE e = "abort" /\ ~LastAttempt(c)
    <3>1. fetching' = fetching /\ outcome' = outcome /\ e \in Passing
      BY <1>11, <2>2 DEF Rejected, Passing
    <3>2. ProviderTypeOK'
      BY <1>1, <1>6, <2>1, <3>1 DEF ProviderTypeOK
    <3>3. Len(met'[c]) < MaxAttempts
      BY <1>2, <1>8, <1>9, <2>2
    <3>4. \A i \in 1..Len(met'[c]) : met'[c][i] \in Passing
      BY <1>7, <1>8, <3>1
    <3>5. CallTrue(c)'
      BY <1>3, <2>1, <3>1, <3>3, <3>4 DEF CallTrue
    <3>6. CallAgrees(c)'
      BY <1>2, <1>3, <1>7, <1>8, <3>1, <3>3 DEF CallAgrees, Passing
    <3> QED BY <1>1, <1>6, <2>1, <3>1, <3>2, <3>5, <3>6, OtherCalls
  <2>3. CASE ~(e = "abort" /\ ~LastAttempt(c))
    <3>1. /\ fetching' = fetching \ {c}
          /\ outcome' = [outcome EXCEPT ![c] = IF e = "abort" THEN "timeout" ELSE "provider_error"]
      BY <1>11, <2>3 DEF Rejected, Settle
    <3>2. /\ outcome' \in [Calls -> Outcomes]
          /\ outcome'[c] = IF e = "abort" THEN "timeout" ELSE "provider_error"
          /\ \A d \in Calls \ {c} : outcome'[d] = outcome[d]
      BY <1>1, <3>1 DEF ProviderTypeOK, Outcomes, Failures
    <3>3. ProviderTypeOK'
      BY <1>1, <1>6, <2>1, <3>1, <3>2 DEF ProviderTypeOK
    <3>4. CallTrue(c)'
      BY <1>3, <2>1, <3>1, <3>2 DEF CallTrue
    <3>5. ASSUME e = "abort" PROVE CallAgrees(c)'
      BY <1>2, <1>7, <1>8, <1>9, <2>3, <3>2, <3>5 DEF CallAgrees, Passing
    <3>6. ASSUME e # "abort" PROVE CallAgrees(c)'
      BY <1>2, <1>7, <1>8, <3>2, <3>6 DEF CallAgrees, Passing
    <3>7. CallAgrees(c)'
      BY <3>5, <3>6
    <3> QED BY <1>1, <1>6, <2>1, <3>1, <3>2, <3>3, <3>4, <3>7, OtherCalls
  <2> QED BY <2>2, <2>3
<1> QED BY <1>10, <1>11

LEMMA ReadBodyKeeps ==
  ASSUME ProviderInv, NEW c \in reading, NEW body \in Bodies, ReadBody(c, body)
  PROVE  ProviderInv'
<1>1. ProviderTypeOK /\ CallTrue(c) /\ CallAgrees(c) /\ c \in Calls
  BY DEF ProviderInv, RetriesAndClassesAgree, CallAgrees, ProviderTypeOK
<1>2. MaxAttempts \in Nat \ {0}
  BY CallsAssumption
<1> DEFINE status == met[c][Len(met[c])]
           how == BodyOutcome(status, body)
<1>3. /\ Len(met[c]) > 0 /\ status \in Statuses /\ outcome[c] = "none"
      /\ c \notin fetching
  BY <1>1 DEF CallTrue
<1>4. how \in Outcomes \ {"none", "timeout"} /\ (how = "completed" => status = "ok")
  BY <1>3 DEF BodyOutcome, Bodies, Statuses, Outcomes, Failures
<1>5. /\ reading' = reading \ {c} /\ UNCHANGED <<fetching, met, suggested>>
      /\ outcome' = [outcome EXCEPT ![c] = how]
  BY DEF ReadBody, Settle, Last
<1> HIDE DEF how
<1>6. /\ outcome' \in [Calls -> Outcomes] /\ outcome'[c] = how
      /\ \A d \in Calls \ {c} : outcome'[d] = outcome[d]
  BY <1>1, <1>4, <1>5 DEF ProviderTypeOK
<1>7. ProviderTypeOK'
  BY <1>1, <1>5, <1>6 DEF ProviderTypeOK
<1>8. CallTrue(c)'
  BY <1>3, <1>4, <1>5, <1>6 DEF CallTrue
<1>9. CallAgrees(c)'
  BY <1>1, <1>3, <1>4, <1>5, <1>6 DEF CallAgrees, Last
<1> QED BY <1>1, <1>5, <1>6, <1>7, <1>8, <1>9, OtherCalls

THEOREM ProviderInvariant == ProviderSpec => []ProviderInv
<1>1. ProviderInv /\ [\E c \in Calls : BeginCall(c) \/ CallSettles(c)]_providerVars
        => ProviderInv'
  <2> SUFFICES ASSUME ProviderInv,
                      [\E c \in Calls : BeginCall(c) \/ CallSettles(c)]_providerVars
               PROVE  ProviderInv'
    OBVIOUS
  <2>1. ASSUME NEW c \in Calls, BeginCall(c)
        PROVE  ProviderInv'
    BY <2>1, BeginCallKeeps
  <2>2. ASSUME NEW c \in Calls, CallSettles(c)
        PROVE  ProviderInv'
    <3>1. ASSUME NEW status \in Statuses, Answered(c, status)
          PROVE  ProviderInv'
      BY <3>1, AttemptKeeps DEF Answered
    <3>2. ASSUME NEW error \in Errors, Rejected(c, error)
          PROVE  ProviderInv'
      BY <3>2, AttemptKeeps DEF Rejected
    <3>3. ASSUME NEW body \in Bodies, ReadBody(c, body)
          PROVE  ProviderInv'
      BY <3>3, ReadBodyKeeps DEF ReadBody
    <3> QED BY <2>2, <3>1, <3>2, <3>3 DEF CallSettles
  <2>3. CASE UNCHANGED providerVars
    BY <2>3 DEF providerVars, ProviderInv, ProviderTypeOK, RetriesAndClassesAgree, CallTrue
  <2> QED BY <2>1, <2>2, <2>3
<1> QED BY <1>1, ProviderInitInv, PTL DEF ProviderSpec

\* fetchWithRetry: a call is repeated only after what may pass, at most
\* MaxAttempts times, and its error class is that of its last attempt.
THEOREM RetriesAlwaysAgree == ProviderSpec => []RetriesAndClassesAgree
<1>1. ProviderInv => RetriesAndClassesAgree
  BY DEF ProviderInv
<1> QED BY <1>1, ProviderInvariant, PTL

-----------------------------------------------------------------------------
(* MockAIProvider.  The best score so far is a recursive function of the   *)
(* scores: that it has a value, and which, is by induction, as the absence *)
(* of a least counterexample.                                              *)

NatLess == {ss \in Nat \X Nat : ss[1] < ss[2]}

\* A set of naturals has a least element: no descent is infinite.
LEMMA LeastElement ==
  ASSUME NEW T, T \subseteq Nat, T # {}
  PROVE  \E x \in T : \A y \in T : x <= y
<1>1. IsWellFoundedOn(NatLess, Nat)
  BY NatLessThanWellFounded DEF OpToRel, NatLess
<1>2. PICK x \in T : \A y \in T : ~ (<<y, x>> \in NatLess)
  BY <1>1, WFMin
<1>3. ASSUME NEW y \in T
      PROVE  x <= y
  <2>1. y \in Nat /\ x \in Nat /\ <<y, x>> \in Nat \X Nat
    OBVIOUS
  <2>2. y < x => <<y, x>> \in NatLess
    BY <2>1 DEF NatLess
  <2> QED BY <1>2, <2>1, <2>2
<1> QED BY <1>3

\* j is the first of the best of the first n scores.
FirstBest(scores, n, j) ==
  /\ j \in 1..n
  /\ \A i \in 1..n : scores[i] <= scores[j]
  /\ \A i \in 1..(j - 1) : scores[i] < scores[j]

\* One turn of the reduce of chooseCategory.
LEMMA NextBest ==
  ASSUME NEW scores \in Seq(Nat), NEW n \in 2..Len(scores), NEW j,
         FirstBest(scores, n - 1, j)
  PROVE  FirstBest(scores, n, IF scores[n] > scores[j] THEN n ELSE j)
<1>1. /\ n \in Nat /\ n > 1 /\ j \in 1..(n - 1) /\ Len(scores) \in Nat
      /\ \A i \in 1..Len(scores) : scores[i] \in Nat
  BY DEF FirstBest
<1>2. CASE scores[n] > scores[j]
  BY <1>1, <1>2 DEF FirstBest
<1>3. CASE ~(scores[n] > scores[j])
  <2>1. scores[n] \in Nat /\ scores[j] \in Nat /\ scores[n] <= scores[j]
    BY <1>1, <1>3
  <2> QED BY <1>1, <1>3, <2>1 DEF FirstBest
<1> QED BY <1>2, <1>3

LEMMA FirstOfOne ==
  ASSUME NEW scores \in Seq(Nat), Len(scores) > 0
  PROVE  FirstBest(scores, 1, 1)
BY DEF FirstBest

LEMMA OneFirstBest ==
  ASSUME NEW scores \in Seq(Nat), NEW n \in 1..Len(scores), NEW j, NEW k,
         FirstBest(scores, n, j), FirstBest(scores, n, k)
  PROVE  j = k
<1>1. /\ j \in 1..n /\ k \in 1..n /\ n \in Nat /\ Len(scores) \in Nat
      /\ \A i \in 1..Len(scores) : scores[i] \in Nat
  BY DEF FirstBest
<1>2. ASSUME j < k PROVE FALSE
  <2>1. scores[j] < scores[k] /\ scores[k] <= scores[j] /\ scores[j] \in Nat /\ scores[k] \in Nat
    BY <1>1, <1>2 DEF FirstBest
  <2> QED BY <2>1
<1>3. ASSUME k < j PROVE FALSE
  <2>1. scores[k] < scores[j] /\ scores[j] <= scores[k] /\ scores[j] \in Nat /\ scores[k] \in Nat
    BY <1>1, <1>3 DEF FirstBest
  <2> QED BY <2>1
<1> QED BY <1>1, <1>2, <1>3

LEMMA FirstBestExists ==
  ASSUME NEW scores \in Seq(Nat), NEW n \in 1..Len(scores)
  PROVE  \E j : FirstBest(scores, n, j)
<1> DEFINE T == {k \in 1..Len(scores) : ~\E j : FirstBest(scores, k, j)}
<1>1. SUFFICES ASSUME T # {} PROVE FALSE
  OBVIOUS
<1>2. PICK k \in T : \A m \in T : k <= m
  <2>1. T \subseteq Nat
    OBVIOUS
  <2> HIDE DEF T
  <2> QED BY <1>1, <2>1, LeastElement
<1>3. k \in 1..Len(scores) /\ Len(scores) \in Nat
  OBVIOUS
<1>4. k # 1
  BY <1>3, FirstOfOne
<1>5. k \in 2..Len(scores) /\ k - 1 \in 1..Len(scores)
  BY <1>3, <1>4
<1>6. PICK j : FirstBest(scores, k - 1, j)
  BY <1>2, <1>5
<1> QED BY <1>5, <1>6, NextBest

\* The function that BestUpTo picks exists: it returns the first of the best.
LEMMA BestUpToUnfolds ==
  ASSUME NEW scores \in Seq(Nat)
  PROVE  BestUpTo(scores) =
           [i \in DOMAIN scores |->
              IF i = 1 \/ scores[i] > scores[BestUpTo(scores)[i - 1]]
              THEN i ELSE BestUpTo(scores)[i - 1]]
<1> DEFINE g == [i \in DOMAIN scores |-> CHOOSE j : FirstBest(scores, i, j)]
           Unfolds(f) == f = [i \in DOMAIN scores |->
              IF i = 1 \/ scores[i] > scores[f[i - 1]] THEN i ELSE f[i - 1]]
<1>1. DOMAIN scores = 1..Len(scores) /\ Len(scores) \in Nat
  OBVIOUS
<1>2. \A i \in 1..Len(scores) : FirstBest(scores, i, g[i])
  BY <1>1, FirstBestExists
<1> HIDE DEF g
<1>3. ASSUME NEW i \in 1..Len(scores)
      PROVE  g[i] = IF i = 1 \/ scores[i] > scores[g[i - 1]] THEN i ELSE g[i - 1]
  <2>1. CASE i = 1
    BY <2>1, <1>1, <1>2, FirstOfOne, OneFirstBest
  <2>2. CASE i # 1
    <3>1. i \in 2..Len(scores) /\ i - 1 \in 1..Len(scores)
      BY <1>1, <2>2
    <3>2. FirstBest(scores, i, IF scores[i] > scores[g[i - 1]] THEN i ELSE g[i - 1])
      BY <1>2, <3>1, NextBest
    <3>3. g[i] = IF scores[i] > scores[g[i - 1]] THEN i ELSE g[i - 1]
      BY <1>2, <3>2, OneFirstBest
    <3> QED BY <2>2, <3>3
  <2> QED BY <2>1, <2>2
<1>4. Unfolds(g)
  <2>1. g = [i \in DOMAIN scores |-> g[i]]
    BY DEF g
  <2> QED BY <1>1, <1>3, <2>1
<1>5. BestUpTo(scores) = CHOOSE f : Unfolds(f)
  BY DEF BestUpTo
<1>6. Unfolds(BestUpTo(scores))
  <2> HIDE DEF Unfolds
  <2> QED BY <1>4, <1>5
<1> QED BY <1>6

\* What reduce has kept after n scores.
LEMMA BestUpToIsFirstBest ==
  ASSUME NEW scores \in Seq(Nat), NEW n \in 1..Len(scores)
  PROVE  FirstBest(scores, n, BestUpTo(scores)[n])
<1> DEFINE b == BestUpTo(scores)
           T == {k \in 1..Len(scores) : ~FirstBest(scores, k, b[k])}
<1>1. SUFFICES ASSUME T # {} PROVE FALSE
  OBVIOUS
<1>2. PICK k \in T : \A m \in T : k <= m
  <2>1. T \subseteq Nat
    OBVIOUS
  <2> HIDE DEF T
  <2> QED BY <1>1, <2>1, LeastElement
<1>3. k \in 1..Len(scores) /\ Len(scores) \in Nat /\ DOMAIN scores = 1..Len(scores)
  OBVIOUS
<1>7. b[k] = IF k = 1 \/ scores[k] > scores[b[k - 1]] THEN k ELSE b[k - 1]
  <2> HIDE DEF b
  <2>1. b = [i \in DOMAIN scores |-> IF i = 1 \/ scores[i] > scores[b[i - 1]] THEN i ELSE b[i - 1]]
    BY BestUpToUnfolds DEF b
  <2> QED BY <2>1, <1>3
<1>4. k # 1
  BY <1>3, <1>7, FirstOfOne
<1>5. k \in 2..Len(scores) /\ k - 1 \in 1..Len(scores)
  BY <1>3, <1>4
<1>6. FirstBest(scores, k - 1, b[k - 1])
  BY <1>2, <1>5
<1> HIDE DEF b
<1>8. FirstBest(scores, k, b[k])
  BY <1>4, <1>5, <1>6, <1>7, NextBest
<1> QED BY <1>8

\* What MockFitsInput says of one input and its answer.
AnswerFits(input, given) ==
  /\ given.category = 0 <=> \A i \in DOMAIN input.scores : input.scores[i] = 0
  /\ given.category # 0 =>
       /\ \A i \in DOMAIN input.scores : input.scores[i] <= input.scores[given.category]
       /\ \A i \in 1..(given.category - 1) :
            input.scores[i] < input.scores[given.category]
  /\ \/ given.slug \in Range(input.departments)
     \/ input.departments = <<>> /\ given.slug = DefaultSlug

\* chooseCategory: reduce returns the first of the best of all scores.
LEMMA CategoryFits ==
  ASSUME NEW scores \in Seq(Nat), Len(scores) > 0
  PROVE  LET category == ChooseCategory(scores)
         IN  /\ category = 0 <=> \A i \in DOMAIN scores : scores[i] = 0
             /\ category # 0 =>
                  /\ \A i \in DOMAIN scores : scores[i] <= scores[category]
                  /\ \A i \in 1..(category - 1) : scores[i] < scores[category]
<1> DEFINE best == BestUpTo(scores)[Len(scores)]
<1>1. /\ Len(scores) \in 1..Len(scores) /\ DOMAIN scores = 1..Len(scores)
      /\ \A i \in 1..Len(scores) : scores[i] \in Nat
  OBVIOUS
<1>2. FirstBest(scores, Len(scores), best)
  BY <1>1, BestUpToIsFirstBest
<1>3. ChooseCategory(scores) = IF scores[best] > 0 THEN best ELSE 0
  BY DEF ChooseCategory
<1> HIDE DEF best
<1>4. best \in 1..Len(scores) /\ scores[best] \in Nat
  BY <1>1, <1>2 DEF FirstBest
<1>5. CASE scores[best] > 0
  BY <1>1, <1>2, <1>3, <1>4, <1>5 DEF FirstBest
<1>6. CASE scores[best] = 0
  <2>1. ASSUME NEW i \in DOMAIN scores PROVE scores[i] = 0
    BY <1>1, <1>2, <1>6 DEF FirstBest
  <2> QED BY <1>3, <1>6, <2>1
<1> QED BY <1>4, <1>5, <1>6

\* find returns one of the departments that fit.
LEMMA FirstPlaceFits ==
  ASSUME NEW departments \in Seq(STRING), NEW S, PlacesIn(departments, S) # {}
  PROVE  departments[FirstPlace(PlacesIn(departments, S))] \in Range(departments)
<1> DEFINE places == PlacesIn(departments, S)
<1>1. places \subseteq DOMAIN departments /\ places \subseteq Nat
  BY DEF PlacesIn
<1> HIDE DEF places
<1>2. \E i \in places : \A j \in places : i <= j
  BY <1>1, LeastElement DEF places
<1>3. FirstPlace(places) \in places
  BY <1>2 DEF FirstPlace
<1> QED BY <1>1, <1>3 DEF Range, places

LEMMA MockAnswerFits ==
  ASSUME NEW input \in MockInputs
  PROVE  AnswerFits(input, MockAnswer(input))
<1> DEFINE category == ChooseCategory(input.scores)
           slugs == input.departments
           slug == ChooseDepartment(input, category)
<1>1. /\ input.scores \in Seq(Nat) /\ Len(input.scores) > 0
      /\ slugs \in Seq(STRING)
  BY MockAssumption
<1>2. slug \in Range(slugs) \/ (slugs = <<>> /\ slug = DefaultSlug)
  <2> DEFINE preferred == PlacesIn(slugs, {input.preferred[category]})
             matching == PlacesIn(slugs, input.keywordsIn[category])
  <2>1. CASE preferred # {}
    BY <1>1, <2>1, FirstPlaceFits DEF ChooseDepartment
  <2>2. CASE preferred = {} /\ matching # {}
    BY <1>1, <2>2, FirstPlaceFits DEF ChooseDepartment
  <2>3. CASE preferred = {} /\ matching = {}
    <3>1. slug = IF slugs # <<>> THEN slugs[1] ELSE DefaultSlug
      BY <2>3 DEF ChooseDepartment
    <3>2. slugs # <<>> => slugs[1] \in Range(slugs)
      BY <1>1 DEF Range
    <3> QED BY <3>1, <3>2
  <2> QED BY <2>1, <2>2, <2>3
<1>3. MockAnswer(input).category = category /\ MockAnswer(input).slug = slug
  BY DEF MockAnswer
<1>4. /\ category = 0 <=> \A i \in DOMAIN input.scores : input.scores[i] = 0
      /\ category # 0 =>
           /\ \A i \in DOMAIN input.scores : input.scores[i] <= input.scores[category]
           /\ \A i \in 1..(category - 1) : input.scores[i] < input.scores[category]
  BY <1>1, CategoryFits
<1> HIDE DEF category, slug, slugs
<1> QED BY <1>2, <1>3, <1>4 DEF AnswerFits, slugs

\* An answer of the mock provider is to what it was asked.
AnswersAreMocks ==
  /\ DOMAIN suggested = MockCalls
  /\ \A c \in MockCalls : suggested[c] # NotAsked =>
       \E input \in MockInputs : suggested[c] = <<input, MockAnswer(input)>>

LEMMA AnswersStayMocks == ProviderSpec => []AnswersAreMocks
<1>1. ProviderInit => AnswersAreMocks
  BY DEF ProviderInit, AnswersAreMocks
<1>2. AnswersAreMocks /\ [\E c \in Calls : BeginCall(c) \/ CallSettles(c)]_providerVars
        => AnswersAreMocks'
  <2> SUFFICES ASSUME AnswersAreMocks,
                      [\E c \in Calls : BeginCall(c) \/ CallSettles(c)]_providerVars
               PROVE  AnswersAreMocks'
    OBVIOUS
  <2>1. ASSUME NEW c \in MockCalls, NEW input \in MockInputs, AskMock(c, input)
        PROVE  AnswersAreMocks'
    BY <2>1 DEF AskMock, AnswersAreMocks
  <2>2. CASE UNCHANGED suggested
    BY <2>2 DEF AnswersAreMocks
  <2> QED BY <2>1, <2>2 DEF BeginCall, AskMock, NotConfigured, SendFirst, CallSettles,
               Answered, Rejected, ReadBody, providerVars
<1> QED BY <1>1, <1>2, PTL DEF ProviderSpec

LEMMA MocksFit == AnswersAreMocks => MockFitsInput
<1> SUFFICES ASSUME AnswersAreMocks, NEW c \in MockCalls, suggested[c] # NotAsked
             PROVE  AnswerFits(suggested[c][1], suggested[c][2])
  BY DEF MockFitsInput, AnswerFits
<1>1. PICK input \in MockInputs : suggested[c] = <<input, MockAnswer(input)>>
  BY DEF AnswersAreMocks
<1> QED BY <1>1, MockAnswerFits

-----------------------------------------------------------------------------
(* KartverketAddress                                                       *)

LookupSpec ==
  LookupInit /\ [][\E l \in Lookups : StartLookup(l) \/ LookupStep(l)]_lookupVars

LEMMA LookupInitInv == LookupInit => LookupInv
BY DEF LookupInit, LookupInv, LookupTypeOK, LookupStates, LookupTrue, Usable

\* What one search does is nothing to the others.
LEMMA OtherLookups ==
  ASSUME LookupInv, LookupTypeOK', NEW l \in Lookups,
         \A k \in Lookups \ {l} :
           /\ lookup'[k] = lookup[k] /\ reply'[k] = reply[k]
           /\ k \in searches' <=> k \in searches
           /\ \A e \in HealthEvents : <<k, e>> \in health' <=> <<k, e>> \in health,
         LookupTrue(l)'
  PROVE  LookupInv'
<1>1. ASSUME NEW k \in Lookups \ {l}
      PROVE  LookupTrue(k)'
  <2>1. LookupTrue(k)
    BY DEF LookupInv
  <2>2. "success" \in HealthEvents
    BY DEF HealthEvents
  <2> QED BY <1>1, <2>1, <2>2 DEF LookupTrue, Failing, Unaudited
<1> QED BY <1>1 DEF LookupInv

LEMMA LookupStepKeeps ==
  ASSUME LookupInv, NEW l \in Lookups, StartLookup(l) \/ LookupStep(l)
  PROVE  LookupInv'
<1>1. LookupTypeOK /\ LookupTrue(l)
  BY DEF LookupInv
<1>2. EmployeeLookups \subseteq Lookups
  BY LookupsAssumption
<1>3. ASSUME NEW from, NEW to \in LookupStates, LookupGoes(l, from, to)
      PROVE  /\ lookup[l] = from /\ lookup'[l] = to
             /\ lookup' \in [Lookups -> LookupStates]
             /\ \A k \in Lookups \ {l} : lookup'[k] = lookup[k]
  BY <1>1, <1>3 DEF LookupGoes, LookupTypeOK
<1>4. ASSUME NEW event \in HealthEvents, RecordHealth(l, event)
      PROVE  /\ health' \subseteq Lookups \X HealthEvents
             /\ \A e \in HealthEvents :
                  <<l, e>> \in health' => <<l, e>> \in health \/ e = event
             /\ \A k \in Lookups \ {l} : \A e \in HealthEvents :
                  <<k, e>> \in health' <=> <<k, e>> \in health
  BY <1>1, <1>4 DEF RecordHealth, LookupTypeOK
<1>5. CASE StartLookup(l)
  <2>1. LookupGoes(l, "idle", "fetch") /\ UNCHANGED <<reply, health, searches>>
    BY <1>5 DEF StartLookup
  <2>2. "fetch" \in LookupStates
    BY DEF LookupStates, LookupSteps
  <2>3. /\ lookup[l] = "idle" /\ lookup'[l] = "fetch"
        /\ lookup' \in [Lookups -> LookupStates]
        /\ \A k \in Lookups \ {l} : lookup'[k] = lookup[k]
    BY <1>3, <2>1, <2>2
  <2>4. LookupTypeOK'
    BY <1>1, <2>1, <2>3 DEF LookupTypeOK
  <2>5. LookupTrue(l)'
    BY <1>1, <2>1, <2>3 DEF LookupTrue
  <2> QED BY <2>1, <2>3, <2>4, <2>5, OtherLookups
<1>6. ASSUME NEW said \in Replies, KartverketReplies(l, said)
      PROVE  LookupInv'
  <2>1. PICK to \in {"success", "failure"} :
          /\ to = IF said \in Usable THEN "success" ELSE "failure"
          /\ LookupGoes(l, "fetch", to)
    BY <1>6 DEF KartverketReplies
  <2>2. to \in LookupStates
    BY DEF LookupStates, LookupSteps
  <2>3. /\ lookup[l] = "fetch" /\ lookup'[l] = to
        /\ lookup' \in [Lookups -> LookupStates]
        /\ \A k \in Lookups \ {l} : lookup'[k] = lookup[k]
    BY <1>3, <2>1, <2>2
  <2>4. UNCHANGED <<health, searches>> /\ reply' = [reply EXCEPT ![l] = said]
    BY <1>6 DEF KartverketReplies
  <2>5. /\ reply' \in [Lookups -> Replies \cup {"none"}] /\ reply'[l] = said
        /\ \A k \in Lookups \ {l} : reply'[k] = reply[k]
    BY <1>1, <2>4 DEF LookupTypeOK
  <2>6. LookupTypeOK'
    BY <1>1, <2>3, <2>4, <2>5 DEF LookupTypeOK
  <2>7. \A e \in HealthEvents : <<l, e>> \notin health
    BY <1>1, <2>3 DEF LookupTrue
  <2>8. "success" \in HealthEvents
    BY DEF HealthEvents
  <2>9. LookupTrue(l)'
    BY <1>1, <2>1, <2>3, <2>4, <2>5, <2>7, <2>8 DEF LookupTrue, Failing
  <2> QED BY <2>3, <2>4, <2>5, <2>6, <2>9, OtherLookups
<1>7. CASE RecordSuccess(l)
  <2>1. PICK to \in {"audit", "results"} :
          /\ to = IF l \in EmployeeLookups THEN "audit" ELSE "results"
          /\ LookupGoes(l, "success", to)
    BY <1>7 DEF RecordSuccess
  <2>2. to \in LookupStates /\ "success" \in HealthEvents
    BY DEF LookupStates, LookupSteps, HealthEvents
  <2>3. /\ lookup[l] = "success" /\ lookup'[l] = to
        /\ lookup' \in [Lookups -> LookupStates]
        /\ \A k \in Lookups \ {l} : lookup'[k] = lookup[k]
    BY <1>3, <2>1, <2>2
  <2>4. UNCHANGED <<reply, searches>> /\ RecordHealth(l, "success")
    BY <1>7 DEF RecordSuccess
  <2>5. /\ health' \subseteq Lookups \X HealthEvents
        /\ \A e \in HealthEvents : <<l, e>> \in health' => <<l, e>> \in health \/ e = "success"
        /\ \A k \in Lookups \ {l} : \A e \in HealthEvents :
             <<k, e>> \in health' <=> <<k, e>> \in health
    BY <1>4, <2>2, <2>4
  <2>6. LookupTypeOK'
    BY <1>1, <2>3, <2>4, <2>5 DEF LookupTypeOK
  <2>7. \A e \in HealthEvents \ {"success"} : <<l, e>> \notin health'
    BY <1>1, <2>3, <2>5 DEF LookupTrue
  <2>8. LookupTrue(l)'
    BY <1>1, <2>1, <2>3, <2>4, <2>7 DEF LookupTrue
  <2> QED BY <2>3, <2>4, <2>5, <2>6, <2>8, OtherLookups
<1>8. CASE AuditSearch(l)
  <2>1. LookupGoes(l, "audit", "results") /\ UNCHANGED <<reply, health>>
        /\ searches' = searches \cup {l}
    BY <1>8 DEF AuditSearch
  <2>2. "results" \in LookupStates
    BY DEF LookupStates
  <2>3. /\ lookup[l] = "audit" /\ lookup'[l] = "results"
        /\ lookup' \in [Lookups -> LookupStates]
        /\ \A k \in Lookups \ {l} : lookup'[k] = lookup[k]
    BY <1>3, <2>1, <2>2
  <2>4. l \in EmployeeLookups
    BY <1>1, <2>3 DEF LookupTrue
  <2>5. LookupTypeOK'
    BY <1>1, <2>1, <2>3, <2>4 DEF LookupTypeOK
  <2>6. LookupTrue(l)'
    BY <1>1, <2>1, <2>3 DEF LookupTrue
  <2> QED BY <2>1, <2>3, <2>5, <2>6, OtherLookups
<1>9. CASE AuditSearchFails(l)
  <2>1. LookupGoes(l, "audit", "failure") /\ UNCHANGED <<reply, health, searches>>
    BY <1>9 DEF AuditSearchFails
  <2>2. "failure" \in LookupStates
    BY DEF LookupStates, LookupSteps
  <2>3. /\ lookup[l] = "audit" /\ lookup'[l] = "failure"
        /\ lookup' \in [Lookups -> LookupStates]
        /\ \A k \in Lookups \ {l} : lookup'[k] = lookup[k]
    BY <1>3, <2>1, <2>2
  <2>4. Unaudited(l)
    BY <1>1, <2>3 DEF LookupTrue, Unaudited
  <2>5. LookupTypeOK'
    BY <1>1, <2>1, <2>3 DEF LookupTypeOK
  <2>6. LookupTrue(l)'
    BY <1>1, <2>1, <2>3, <2>4 DEF LookupTrue, Failing, Unaudited
  <2> QED BY <2>1, <2>3, <2>5, <2>6, OtherLookups
<1>10. CASE RecordFailure(l)
  <2>1. /\ LookupGoes(l, "failure", "unavailable") /\ UNCHANGED <<reply, searches>>
        /\ RecordHealth(l, ErrorCode(l))
    BY <1>10 DEF RecordFailure
  <2>2. "unavailable" \in LookupStates
    BY DEF LookupStates
  <2>3. /\ lookup[l] = "failure" /\ lookup'[l] = "unavailable"
        /\ lookup' \in [Lookups -> LookupStates]
        /\ \A k \in Lookups \ {l} : lookup'[k] = lookup[k]
    BY <1>3, <2>1, <2>2
  <2>4. ErrorCode(l) \in HealthEvents \ {"success"}
    BY DEF ErrorCode, HealthEvents
  <2>5. /\ health' \subseteq Lookups \X HealthEvents
        /\ \A e \in HealthEvents : <<l, e>> \in health' => <<l, e>> \in health \/ e = ErrorCode(l)
        /\ \A k \in Lookups \ {l} : \A e \in HealthEvents :
             <<k, e>> \in health' <=> <<k, e>> \in health
    BY <1>4, <2>1, <2>4
  <2>6. LookupTypeOK'
    BY <1>1, <2>1, <2>3, <2>5 DEF LookupTypeOK
  <2>7. "success" \in HealthEvents
    BY DEF HealthEvents
  <2>8. LookupTrue(l)'
    BY <1>1, <2>1, <2>3, <2>4, <2>5, <2>7 DEF LookupTrue, Failing, Unaudited
  <2> QED BY <2>1, <2>3, <2>5, <2>6, <2>8, OtherLookups
<1> QED BY <1>5, <1>6, <1>7, <1>8, <1>9, <1>10 DEF LookupStep

THEOREM LookupInvariant == LookupSpec => []LookupInv
<1>1. LookupInv /\ UNCHANGED lookupVars => LookupInv'
  BY DEF lookupVars, LookupInv, LookupTypeOK, LookupTrue, Failing, Unaudited
<1>2. LookupInv /\ [\E l \in Lookups : StartLookup(l) \/ LookupStep(l)]_lookupVars
        => LookupInv'
  BY <1>1, LookupStepKeeps
<1> QED BY <1>2, LookupInitInv, PTL DEF LookupSpec

\* A stored failure was Kartverket's, or the audit event's of the same search.
LEMMA LookupInvBlames == LookupInv => FailuresAreKartverkets
<1> SUFFICES ASSUME LookupInv, NEW l \in Lookups, NEW event \in HealthEvents \ {"success"},
                    <<l, event>> \in health
             PROVE  \/ reply[l] \notin Usable /\ <<l, "success">> \notin health
                    \/ l \in EmployeeLookups \ searches
  BY DEF FailuresAreKartverkets
<1>1. LookupTrue(l) /\ lookup[l] \in LookupStates
  BY DEF LookupInv, LookupTypeOK
<1>2. lookup[l] \in {"failure", "unavailable"}
  BY <1>1 DEF LookupTrue, LookupStates, LookupSteps
<1> QED BY <1>1, <1>2 DEF LookupTrue, Failing, Unaudited

-----------------------------------------------------------------------------
(* SsbImport                                                               *)

ImportSpec == ImportInit /\ [][ImportNext \/ ImportsDie]_importVars

\* What StartedRunsExplained says of one import.
StartedExplained(i) ==
  /\ importRuns[i] = "started" =>
       \/ importing[i] \in ImportSteps \cup {"dead"}
       \/ importing[i] = "rejected" /\ <<i, "failed">> \notin importHealth
  /\ i \in EltImports => importRuns[i] \in {"none", "completed"}

LEMMA ImportInitInv == ImportInit => ImportInv
<1> SUFFICES ASSUME ImportInit PROVE ImportInv  OBVIOUS
<1>1. ImportTypeOK
  <2>1. 1 \in 1..MaxEdition /\ 0 \in 0..MaxEdition
    BY ImportAssumption
  <2> QED BY <2>1 DEF ImportInit, ImportTypeOK, ImportStates
<1>2. FiguresKnown
  BY DEF ImportInit, FiguresKnown, Stored
<1>3. StartedRunsExplained /\ \A i \in Imports : ImportTrue(i)
  BY DEF ImportInit, StartedRunsExplained, ImportTrue, NoOrder
<1> QED BY <1>1, <1>2, <1>3 DEF ImportInv

\* What one import does is nothing to what the others know of themselves.
LEMMA OtherImports ==
  ASSUME ImportInv, NEW i \in Imports, ImportTypeOK', FiguresKnown',
         \A j \in Imports \ {i} :
           /\ importing'[j] = importing[j] /\ importRuns'[j] = importRuns[j]
           /\ order'[j] = order[j] /\ fetched'[j] = fetched[j]
           /\ held'[j] = held[j] /\ left'[j] = left[j]
           /\ \A status \in {"success", "failed"} :
                <<j, status>> \in importHealth' <=> <<j, status>> \in importHealth,
         ImportTrue(i)', StartedExplained(i)'
  PROVE  ImportInv'
<1>1. ASSUME NEW j \in Imports \ {i}
      PROVE  ImportTrue(j)' /\ StartedExplained(j)'
  <2>1. ImportTrue(j) /\ StartedExplained(j)
    BY DEF ImportInv, StartedRunsExplained, StartedExplained
  <2> QED BY <1>1, <2>1 DEF ImportTrue, StartedExplained
<1>2. \A j \in Imports : ImportTrue(j)' /\ StartedExplained(j)'
  BY <1>1
<1> QED BY <1>2 DEF ImportInv, StartedRunsExplained, StartedExplained

\* An import goes on, and another figure is not touched.
LEMMA ImportGoesOn ==
  ASSUME ImportTypeOK, NEW i \in Imports, NEW from, NEW to \in ImportStates,
         ImportGoes(i, from, to)
  PROVE  /\ importing[i] = from /\ importing'[i] = to
         /\ importing' \in [Imports -> ImportStates]
         /\ \A j \in Imports \ {i} : importing'[j] = importing[j]
BY DEF ImportGoes, ImportTypeOK

LEMMA RunMarked ==
  ASSUME ImportTypeOK, NEW i \in Imports, NEW status \in {"started", "completed", "failed"},
         MarkRun(i, status)
  PROVE  /\ importRuns'[i] = status
         /\ importRuns' \in [Imports -> {"none", "started", "completed", "failed"}]
         /\ \A j \in Imports \ {i} : importRuns'[j] = importRuns[j]
BY DEF MarkRun, ImportTypeOK

LEMMA FiguresStay ==
  ASSUME FiguresKnown, UNCHANGED <<statistics, fetched, held, left>>
  PROVE  FiguresKnown'
BY DEF FiguresKnown, Stored

\* An import that has fetched nothing fetches.
LEMMA FiguresGrow ==
  ASSUME FiguresKnown, NEW i \in Imports, fetched[i] = 0, UNCHANGED statistics,
         \A j \in Imports \ {i} :
           fetched'[j] = fetched[j] /\ held'[j] = held[j] /\ left'[j] = left[j],
         left'[i] = held'[i]
  PROVE  FiguresKnown'
<1>1. \A k : ~Stored(i, k) /\ ~Stored(i, k)'
  BY DEF Stored
<1>2. ASSUME NEW k \in Figures, statistics'[k] # 0
      PROVE  \E j \in Imports : fetched'[j] = statistics'[k] /\ Stored(j, k)'
  <2>1. PICK j \in Imports : fetched[j] = statistics[k] /\ Stored(j, k)
    BY <1>2 DEF FiguresKnown
  <2>2. j # i
    BY <1>1, <2>1
  <2>3. fetched'[j] = fetched[j] /\ Stored(j, k)'
    BY <2>1, <2>2 DEF Stored
  <2> QED BY <2>1, <2>3
<1>3. ASSUME NEW j \in Imports, NEW k \in Figures, Stored(j, k)'
      PROVE  statistics'[k] # 0
  <2>1. j # i
    BY <1>1, <1>3
  <2>2. Stored(j, k)
    BY <1>3, <2>1 DEF Stored
  <2> QED BY <2>2 DEF FiguresKnown
<1> QED BY <1>2, <1>3 DEF FiguresKnown, Figures

LEMMA ImportStarts ==
  ASSUME ImportInv, NEW i \in Imports, NEW o \in Orders, StartImport(i, o)
  PROVE  ImportInv'
<1>1. ImportTypeOK /\ FiguresKnown /\ ImportTrue(i) /\ StartedExplained(i)
  BY DEF ImportInv, StartedRunsExplained, StartedExplained
<1>2. /\ ImportGoes(i, "idle", "fetch") /\ order' = [order EXCEPT ![i] = o]
      /\ UNCHANGED <<edition, statistics, importHealth, fetched, held, left>>
      /\ \/ i \notin EltImports /\ MarkRun(i, "started")
         \/ i \in EltImports /\ UNCHANGED importRuns
  BY DEF StartImport, CreateRun, BeginElt
<1>3. "fetch" \in ImportStates
  BY DEF ImportStates, ImportSteps
<1>4. /\ importing[i] = "idle" /\ importing'[i] = "fetch"
      /\ importing' \in [Imports -> ImportStates]
      /\ \A j \in Imports \ {i} : importing'[j] = importing[j]
  BY <1>1, <1>2, <1>3, ImportGoesOn
<1>5. /\ order' \in [Imports -> Order \cup {NoOrder}] /\ order'[i] = o
      /\ \A j \in Imports \ {i} : order'[j] = order[j]
  BY <1>1, <1>2, ImportAssumption DEF ImportTypeOK
<1>6. /\ importRuns' \in [Imports -> {"none", "started", "completed", "failed"}]
      /\ \A j \in Imports \ {i} : importRuns'[j] = importRuns[j]
      /\ importRuns'[i] = IF i \in EltImports THEN importRuns[i] ELSE "started"
  BY <1>1, <1>2, RunMarked DEF ImportTypeOK
<1>7. fetched[i] = 0 /\ left[i] = {} /\ held[i] = {} /\ importRuns[i] = "none"
  BY <1>1, <1>4 DEF ImportTrue
<1>8. ImportTypeOK'
  BY <1>1, <1>2, <1>4, <1>5, <1>6 DEF ImportTypeOK
<1>9. FiguresKnown'
  BY <1>1, <1>2, FiguresStay
<1>10. ImportTrue(i)'
  BY <1>1, <1>2, <1>4, <1>5, <1>6, <1>7, ImportAssumption DEF ImportTrue
<1>11. StartedExplained(i)'
  BY <1>1, <1>4, <1>6, <1>7 DEF StartedExplained, ImportSteps
<1> QED BY <1>2, <1>4, <1>5, <1>6, <1>8, <1>9, <1>10, <1>11, OtherImports

LEMMA FetchKeeps ==
  ASSUME ImportInv, NEW i \in Imports, Fetch(i)
  PROVE  ImportInv'
<1>1. ImportTypeOK /\ FiguresKnown /\ ImportTrue(i) /\ StartedExplained(i)
  BY DEF ImportInv, StartedRunsExplained, StartedExplained
<1>2. PICK figures \in AnswersTo(i), to \in {"commit", "complete", "upsert"} :
        /\ to = IF i \in EltImports THEN "commit"
                ELSE IF figures = {} THEN "complete" ELSE "upsert"
        /\ ImportGoes(i, "fetch", to)
        /\ fetched' = [fetched EXCEPT ![i] = edition]
        /\ held' = [held EXCEPT ![i] = figures]
        /\ left' = [left EXCEPT ![i] = figures]
        /\ UNCHANGED <<edition, statistics, importRuns, importHealth, order>>
  BY DEF Fetch
<1>4. to \in ImportStates
  BY DEF ImportStates, ImportSteps
<1>5. /\ importing[i] = "fetch" /\ importing'[i] = to
      /\ importing' \in [Imports -> ImportStates]
      /\ \A j \in Imports \ {i} : importing'[j] = importing[j]
  BY <1>1, <1>2, <1>4, ImportGoesOn
<1>6. edition \in 0..MaxEdition /\ edition # 0
  BY <1>1, ImportAssumption DEF ImportTypeOK
<1>7. figures \subseteq Figures
  <2>1. i \in EltImports => order[i].year \in Years
    BY <1>1, <1>5 DEF ImportTrue, ImportTypeOK, Order
  <2>2. PICK regions \in SUBSET Municipalities,
             year \in IF i \in EltImports THEN {order[i].year} ELSE Years :
          figures = regions \X {year}
    BY DEF AnswersTo
  <2>3. year \in Years
    BY <2>1, <2>2
  <2> QED BY <2>2, <2>3 DEF Figures
<1>8. /\ fetched' \in [Imports -> 0..MaxEdition] /\ fetched'[i] = edition
      /\ held' \in [Imports -> SUBSET Figures] /\ held'[i] = figures
      /\ left' \in [Imports -> SUBSET Figures] /\ left'[i] = figures
      /\ \A j \in Imports \ {i} :
           fetched'[j] = fetched[j] /\ held'[j] = held[j] /\ left'[j] = left[j]
  BY <1>1, <1>2, <1>6, <1>7 DEF ImportTypeOK
<1>9. fetched[i] = 0
  BY <1>1, <1>5 DEF ImportTrue
<1>10. ImportTypeOK'
  BY <1>1, <1>2, <1>5, <1>8 DEF ImportTypeOK
<1>11. FiguresKnown'
  BY <1>1, <1>2, <1>8, <1>9, FiguresGrow
<1>12. ImportTrue(i)'
  <2>1. importRuns'[i] = importRuns[i] /\ importRuns[i] # "completed" /\ importHealth' = importHealth
    BY <1>1, <1>2, <1>9 DEF ImportTrue
  <2> QED BY <1>1, <1>2, <1>5, <1>6, <1>8, <2>1 DEF ImportTrue
<1>13. StartedExplained(i)'
  BY <1>1, <1>2, <1>5 DEF StartedExplained, ImportSteps
<1> QED BY <1>2, <1>5, <1>8, <1>10, <1>11, <1>12, <1>13, OtherImports

LEMMA UpsertKeeps ==
  ASSUME ImportInv, NEW i \in Imports, NEW k \in Figures, Upsert(i, k)
  PROVE  ImportInv'
<1>1. ImportTypeOK /\ FiguresKnown /\ ImportTrue(i) /\ StartedExplained(i)
  BY DEF ImportInv, StartedRunsExplained, StartedExplained
<1>2. PICK to \in {"complete", "upsert"} :
        /\ to = IF left[i] = {k} THEN "complete" ELSE "upsert"
        /\ ImportGoes(i, "upsert", to)
  BY DEF Upsert
<1>3. /\ left' = [left EXCEPT ![i] = left[i] \ {k}] /\ k \in left[i]
      /\ statistics' = [statistics EXCEPT ![k] = fetched[i]]
      /\ UNCHANGED <<edition, importRuns, importHealth, order, fetched, held>>
  BY DEF Upsert
<1>4. to \in ImportStates
  BY DEF ImportStates, ImportSteps
<1>5. /\ importing[i] = "upsert" /\ importing'[i] = to
      /\ importing' \in [Imports -> ImportStates]
      /\ \A j \in Imports \ {i} : importing'[j] = importing[j]
  BY <1>1, <1>2, <1>4, ImportGoesOn
<1>6. fetched[i] # 0 /\ k \in held[i] /\ fetched[i] \in 0..MaxEdition
  BY <1>1, <1>3, <1>5 DEF ImportTrue, ImportTypeOK
<1>9. /\ left' \in [Imports -> SUBSET Figures] /\ left'[i] = left[i] \ {k}
      /\ \A j \in Imports \ {i} : left'[j] = left[j]
  BY <1>1, <1>3 DEF ImportTypeOK
<1>10. /\ statistics' \in [Figures -> 0..MaxEdition]
       /\ statistics'[k] = fetched[i]
       /\ \A n \in Figures \ {k} : statistics'[n] = statistics[n]
  BY <1>1, <1>3, <1>6 DEF ImportTypeOK
<1>11. ImportTypeOK'
  BY <1>1, <1>3, <1>5, <1>9, <1>10 DEF ImportTypeOK
<1>12. FiguresKnown'
  <2>1. \A j \in Imports : \A n : Stored(j, n) => Stored(j, n)'
    BY <1>3, <1>9 DEF Stored
  <2>2. Stored(i, k)'
    BY <1>3, <1>6, <1>9 DEF Stored
  <2>4. ASSUME NEW n \in Figures, statistics'[n] # 0
        PROVE  \E j \in Imports : fetched'[j] = statistics'[n] /\ Stored(j, n)'
    <3>1. CASE n = k
      BY <1>3, <1>10, <2>2, <3>1
    <3>2. CASE n # k
      <4>1. PICK j \in Imports : fetched[j] = statistics[n] /\ Stored(j, n)
        BY <1>1, <1>10, <2>4, <3>2 DEF FiguresKnown
      <4> QED BY <1>3, <1>10, <2>1, <3>2, <4>1
    <3> QED BY <3>1, <3>2
  <2>5. ASSUME NEW j \in Imports, NEW n \in Figures, Stored(j, n)'
        PROVE  statistics'[n] # 0
    <3>1. CASE n = k
      BY <1>6, <1>10, <3>1
    <3>2. CASE n # k
      <4>1. Stored(j, n)
        BY <1>3, <1>9, <2>5, <3>2 DEF Stored
      <4> QED BY <1>1, <1>10, <3>2, <4>1 DEF FiguresKnown
    <3> QED BY <3>1, <3>2
  <2> QED BY <2>4, <2>5 DEF FiguresKnown, Figures
<1>13. ImportTrue(i)'
  <2>1. /\ importRuns'[i] = importRuns[i] /\ importRuns[i] # "completed" /\ held'[i] = held[i]
        /\ importHealth' = importHealth /\ fetched'[i] = fetched[i]
    BY <1>1, <1>3 DEF ImportTrue
  <2> QED BY <1>1, <1>2, <1>5, <1>6, <1>9, <2>1 DEF ImportTrue
<1>14. StartedExplained(i)'
  BY <1>1, <1>2, <1>3, <1>5 DEF StartedExplained, ImportSteps
<1> QED BY <1>3, <1>5, <1>9, <1>11, <1>12, <1>13, <1>14, OtherImports

\* The steps that write nothing, a step of the error path among them.
LEMMA ImportGivesUp ==
  ASSUME ImportInv, NEW i \in Imports, ImportFails(i) \/ MarkFailedFails(i) \/ RollBackElt(i)
  PROVE  ImportInv'
<1>1. ImportTypeOK /\ FiguresKnown /\ ImportTrue(i) /\ StartedExplained(i)
  BY DEF ImportInv, StartedRunsExplained, StartedExplained
<1>2. UNCHANGED <<edition, statistics, importRuns, importHealth, order, fetched, held, left>>
  BY DEF ImportFails, MarkFailedFails, RollBackElt
<1>3. PICK from \in ImportSteps \ {"success"}, to \in {"markFailed", "rejected"} :
        /\ ImportGoes(i, from, to)
        /\ to = "rejected" => i \in EltImports \/ from = "markFailed"
        /\ to = "markFailed" => i \notin EltImports
  <2>1. CASE ImportFails(i)
    BY <2>1 DEF ImportFails, ImportSteps
  <2>2. CASE MarkFailedFails(i)
    BY <2>2 DEF MarkFailedFails, ImportSteps
  <2>3. CASE RollBackElt(i)
    BY <2>3 DEF RollBackElt, ImportSteps
  <2> QED BY <2>1, <2>2, <2>3
<1>4. to \in ImportStates
  BY DEF ImportStates, ImportSteps
<1>5. /\ importing[i] = from /\ importing'[i] = to
      /\ importing' \in [Imports -> ImportStates]
      /\ \A j \in Imports \ {i} : importing'[j] = importing[j]
  BY <1>1, <1>3, <1>4, ImportGoesOn
<1>6. ImportTypeOK'
  BY <1>1, <1>2, <1>5 DEF ImportTypeOK
<1>7. FiguresKnown'
  BY <1>1, <1>2, FiguresStay
<1>8. <<i, "failed">> \notin importHealth /\ <<i, "success">> \notin importHealth
  BY <1>1, <1>3, <1>5 DEF ImportTrue, ImportSteps
<1>9. ImportTrue(i)'
  <2>1. importRuns'[i] = importRuns[i] /\ fetched'[i] = fetched[i] /\ left'[i] = left[i]
        /\ held'[i] = held[i] /\ importHealth' = importHealth
    BY <1>2
  <2> QED BY <1>1, <1>3, <1>5, <1>8, <2>1 DEF ImportTrue
<1>10. StartedExplained(i)'
  BY <1>1, <1>2, <1>3, <1>5, <1>8 DEF StartedExplained, ImportSteps
<1> QED BY <1>2, <1>5, <1>6, <1>7, <1>9, <1>10, OtherImports

\* The run row is marked.
LEMMA MarkingKeeps ==
  ASSUME ImportInv, NEW i \in Imports, CompleteRun(i) \/ MarkFailed(i)
  PROVE  ImportInv'
<1>1. ImportTypeOK /\ FiguresKnown /\ ImportTrue(i) /\ StartedExplained(i)
  BY DEF ImportInv, StartedRunsExplained, StartedExplained
<1>2. PICK from \in {"complete", "markFailed"}, to \in {"success", "failure"},
           status \in {"completed", "failed"} :
        /\ ImportGoes(i, from, to) /\ MarkRun(i, status)
        /\ \/ from = "complete" /\ to = "success" /\ status = "completed"
           \/ from = "markFailed" /\ to = "failure" /\ status = "failed"
  BY DEF CompleteRun, MarkFailed
<1>3. UNCHANGED <<edition, statistics, importHealth, order, fetched, held, left>>
  BY DEF CompleteRun, MarkFailed
<1>4. to \in ImportStates
  BY DEF ImportStates, ImportSteps
<1>5. /\ importing[i] = from /\ importing'[i] = to
      /\ importing' \in [Imports -> ImportStates]
      /\ \A j \in Imports \ {i} : importing'[j] = importing[j]
  BY <1>1, <1>2, <1>4, ImportGoesOn
<1>6. /\ importRuns'[i] = status
      /\ importRuns' \in [Imports -> {"none", "started", "completed", "failed"}]
      /\ \A j \in Imports \ {i} : importRuns'[j] = importRuns[j]
  BY <1>1, <1>2, RunMarked
<1>7. ImportTypeOK'
  BY <1>1, <1>3, <1>5, <1>6 DEF ImportTypeOK
<1>8. FiguresKnown'
  BY <1>1, <1>3, FiguresStay
<1>9. i \notin EltImports
  BY <1>1, <1>2, <1>5 DEF ImportTrue
<1>10. <<i, "failed">> \notin importHealth /\ <<i, "success">> \notin importHealth
  BY <1>1, <1>2, <1>5 DEF ImportTrue
<1>11. ImportTrue(i)'
  <2>1. /\ fetched'[i] = fetched[i] /\ left'[i] = left[i]
        /\ held'[i] = held[i] /\ importHealth' = importHealth
    BY <1>3
  <2> QED BY <1>1, <1>2, <1>5, <1>6, <1>9, <1>10, <2>1 DEF ImportTrue
<1>12. StartedExplained(i)'
  BY <1>1, <1>2, <1>6, <1>9 DEF StartedExplained
<1> QED BY <1>3, <1>5, <1>6, <1>7, <1>8, <1>11, <1>12, OtherImports

\* The health event of an import that has come to its end, stored or lost.
LEMMA RecordingKeeps ==
  ASSUME ImportInv, NEW i \in Imports, RecordImportSuccess(i) \/ RecordImportFailure(i)
  PROVE  ImportInv'
<1>1. ImportTypeOK /\ FiguresKnown /\ ImportTrue(i) /\ StartedExplained(i)
  BY DEF ImportInv, StartedRunsExplained, StartedExplained
<1>2. PICK from \in {"success", "failure"}, to \in {"done", "rejected"},
           status \in {"success", "failed"} :
        /\ ImportGoes(i, from, to) /\ RecordImportHealth(i, status)
        /\ \/ from = "success" /\ to = "done" /\ status = "success"
           \/ from = "failure" /\ to = "rejected" /\ status = "failed"
  BY DEF RecordImportSuccess, RecordImportFailure
<1>3. UNCHANGED <<edition, statistics, importRuns, order, fetched, held, left>>
  BY DEF RecordImportSuccess, RecordImportFailure
<1>4. to \in ImportStates
  BY DEF ImportStates
<1>5. /\ importing[i] = from /\ importing'[i] = to
      /\ importing' \in [Imports -> ImportStates]
      /\ \A j \in Imports \ {i} : importing'[j] = importing[j]
  BY <1>1, <1>2, <1>4, ImportGoesOn
<1>6. i \notin EltImports
  BY <1>1, <1>2, <1>5 DEF ImportTrue
<1>7. /\ importHealth' \subseteq (Imports \ EltImports) \X {"success", "failed"}
      /\ \A which \in {"success", "failed"} :
           /\ <<i, which>> \in importHealth' => <<i, which>> \in importHealth \/ which = status
           /\ \A j \in Imports \ {i} :
                <<j, which>> \in importHealth' <=> <<j, which>> \in importHealth
  BY <1>1, <1>2, <1>6 DEF RecordImportHealth, ImportTypeOK
<1>8. ImportTypeOK'
  BY <1>1, <1>3, <1>5, <1>7 DEF ImportTypeOK
<1>9. FiguresKnown'
  BY <1>1, <1>3, FiguresStay
<1>10. <<i, "failed">> \notin importHealth /\ <<i, "success">> \notin importHealth
  BY <1>1, <1>2, <1>5 DEF ImportTrue
<1>11. ImportTrue(i)'
  <2>1. /\ fetched'[i] = fetched[i] /\ left'[i] = left[i]
        /\ held'[i] = held[i] /\ importRuns' = importRuns
    BY <1>3
  <2> QED BY <1>1, <1>2, <1>5, <1>6, <1>7, <1>10, <2>1 DEF ImportTrue
<1>12. StartedExplained(i)'
  <2>1. importRuns[i] # "started" /\ importRuns' = importRuns
    BY <1>1, <1>2, <1>3, <1>5 DEF ImportTrue
  <2> QED BY <1>1, <2>1 DEF StartedExplained
<1> QED BY <1>3, <1>5, <1>7, <1>8, <1>9, <1>11, <1>12, OtherImports

LEMMA CommitEltKeeps ==
  ASSUME ImportInv, NEW i \in Imports, CommitElt(i)
  PROVE  ImportInv'
<1>1. ImportTypeOK /\ FiguresKnown /\ ImportTrue(i) /\ StartedExplained(i)
  BY DEF ImportInv, StartedRunsExplained, StartedExplained
<1>2. /\ ImportGoes(i, "commit", "done") /\ MarkRun(i, "completed")
      /\ statistics' = [k \in Figures |-> IF k \in held[i] THEN fetched[i] ELSE statistics[k]]
      /\ left' = [left EXCEPT ![i] = {}]
      /\ UNCHANGED <<edition, importHealth, order, fetched, held>>
  BY DEF CommitElt
<1>3. "done" \in ImportStates
  BY DEF ImportStates
<1>4. /\ importing[i] = "commit" /\ importing'[i] = "done"
      /\ importing' \in [Imports -> ImportStates]
      /\ \A j \in Imports \ {i} : importing'[j] = importing[j]
  BY <1>1, <1>2, <1>3, ImportGoesOn
<1>5. /\ importRuns'[i] = "completed"
      /\ importRuns' \in [Imports -> {"none", "started", "completed", "failed"}]
      /\ \A j \in Imports \ {i} : importRuns'[j] = importRuns[j]
  BY <1>1, <1>2, RunMarked
<1>6. /\ left' \in [Imports -> SUBSET Figures] /\ left'[i] = {}
      /\ \A j \in Imports \ {i} : left'[j] = left[j]
  BY <1>1, <1>2 DEF ImportTypeOK
<1>7. fetched[i] # 0 /\ fetched[i] \in 0..MaxEdition /\ i \in EltImports
  BY <1>1, <1>4 DEF ImportTrue, ImportTypeOK
<1>8. /\ statistics' \in [Figures -> 0..MaxEdition]
      /\ \A k \in Figures :
           statistics'[k] = IF k \in held[i] THEN fetched[i] ELSE statistics[k]
  BY <1>1, <1>2, <1>7 DEF ImportTypeOK
<1>11. ImportTypeOK'
  BY <1>1, <1>2, <1>4, <1>5, <1>6, <1>8 DEF ImportTypeOK
<1>12. FiguresKnown'
  <2>1. \A j \in Imports : \A k : Stored(j, k) => Stored(j, k)'
    BY <1>2, <1>6 DEF Stored
  <2>2. \A k : Stored(i, k)' <=> k \in held[i]
    BY <1>2, <1>6, <1>7 DEF Stored
  <2>3. ASSUME NEW k \in Figures, statistics'[k] # 0
        PROVE  \E j \in Imports : fetched'[j] = statistics'[k] /\ Stored(j, k)'
    <3>1. CASE k \in held[i]
      BY <1>2, <1>8, <2>2, <3>1
    <3>2. CASE k \notin held[i]
      <4>1. PICK j \in Imports : fetched[j] = statistics[k] /\ Stored(j, k)
        BY <1>1, <1>8, <2>3, <3>2 DEF FiguresKnown
      <4> QED BY <1>2, <1>8, <2>1, <3>2, <4>1
    <3> QED BY <3>1, <3>2
  <2>4. ASSUME NEW j \in Imports, NEW k \in Figures, Stored(j, k)'
        PROVE  statistics'[k] # 0
    <3>1. CASE k \in held[i]
      BY <1>7, <1>8, <3>1
    <3>2. CASE k \notin held[i]
      <4>1. j # i
        BY <2>2, <2>4, <3>2
      <4>2. Stored(j, k)
        BY <1>2, <1>6, <2>4, <4>1 DEF Stored
      <4> QED BY <1>1, <1>8, <3>2, <4>2 DEF FiguresKnown
    <3> QED BY <3>1, <3>2
  <2> QED BY <2>3, <2>4 DEF FiguresKnown, Figures
<1>13. ImportTrue(i)'
  <2>1. /\ held'[i] = held[i] /\ importHealth' = importHealth /\ fetched'[i] = fetched[i]
        /\ <<i, "failed">> \notin importHealth
    BY <1>1, <1>2, <1>4 DEF ImportTrue
  <2> QED BY <1>1, <1>4, <1>5, <1>6, <1>7, <2>1 DEF ImportTrue
<1>14. StartedExplained(i)'
  BY <1>5 DEF StartedExplained
<1> QED BY <1>2, <1>4, <1>5, <1>6, <1>11, <1>12, <1>13, <1>14, OtherImports

LEMMA CrashKeepsImports ==
  ASSUME ImportInv, ImportsDie
  PROVE  ImportInv'
<1>1. ImportTypeOK /\ FiguresKnown
  BY DEF ImportInv
<1>2. /\ importing' = [i \in Imports |-> IF Running(i) THEN "dead" ELSE importing[i]]
      /\ UNCHANGED <<edition, statistics, importRuns, importHealth, order, fetched, held, left>>
  BY DEF ImportsDie
<1>3. \A i \in Imports :
        importing'[i] = IF importing[i] \in ImportSteps THEN "dead" ELSE importing[i]
  BY <1>2 DEF Running
<1>4. ImportTypeOK'
  <2>1. importing' \in [Imports -> ImportStates]
    BY <1>1, <1>2 DEF ImportTypeOK, ImportStates
  <2> QED BY <1>1, <1>2, <2>1 DEF ImportTypeOK
<1>5. FiguresKnown'
  BY <1>1, <1>2, FiguresStay
<1>6. ASSUME NEW i \in Imports
      PROVE  ImportTrue(i)' /\ StartedExplained(i)'
  <2>1. ImportTrue(i) /\ StartedExplained(i)
    BY DEF ImportInv, StartedRunsExplained, StartedExplained
  <2>2. /\ importRuns'[i] = importRuns[i] /\ fetched'[i] = fetched[i] /\ left'[i] = left[i]
        /\ order'[i] = order[i] /\ held'[i] = held[i] /\ importHealth' = importHealth
    BY <1>2
  <2>3. CASE importing[i] \in ImportSteps
    <3>1. importing'[i] = "dead"
      BY <1>3, <2>3
    <3>2. <<i, "failed">> \notin importHealth /\ <<i, "success">> \notin importHealth
      BY <2>1, <2>3 DEF ImportTrue, ImportSteps
    <3> QED BY <2>1, <2>2, <3>1, <3>2 DEF ImportTrue, StartedExplained
  <2>4. CASE importing[i] \notin ImportSteps
    <3>1. importing'[i] = importing[i]
      BY <1>3, <2>4
    <3> QED BY <2>1, <2>2, <3>1 DEF ImportTrue, StartedExplained
  <2> QED BY <2>3, <2>4
<1> QED BY <1>4, <1>5, <1>6 DEF ImportInv, StartedRunsExplained, StartedExplained

\* SSB publishes, or nothing happens.
LEMMA WorldKeepsImports ==
  ASSUME ImportInv, Publish \/ UNCHANGED importVars
  PROVE  ImportInv'
<1>1. ImportTypeOK /\ FiguresKnown
  BY DEF ImportInv
<1>2. UNCHANGED <<statistics, importRuns, importHealth, importing, order, fetched, held, left>>
  BY DEF Publish, importVars
<1>3. edition' \in 1..MaxEdition
  <2>1. CASE Publish
    BY <1>1, <2>1, ImportAssumption DEF Publish, ImportTypeOK
  <2>2. CASE UNCHANGED importVars
    BY <1>1, <2>2 DEF importVars, ImportTypeOK
  <2> QED BY <2>1, <2>2
<1>5. ImportTypeOK'
  BY <1>1, <1>2, <1>3 DEF ImportTypeOK
<1>6. FiguresKnown'
  BY <1>1, <1>2, FiguresStay
<1>7. ASSUME NEW i \in Imports
      PROVE  ImportTrue(i)' /\ StartedExplained(i)'
  <2>1. ImportTrue(i) /\ StartedExplained(i)
    BY DEF ImportInv, StartedRunsExplained, StartedExplained
  <2> QED BY <1>2, <2>1 DEF ImportTrue, StartedExplained
<1> QED BY <1>5, <1>6, <1>7 DEF ImportInv, StartedRunsExplained, StartedExplained

THEOREM ImportInvariant == ImportSpec => []ImportInv
<1>1. ImportInv /\ [ImportNext \/ ImportsDie]_importVars => ImportInv'
  <2> SUFFICES ASSUME ImportInv, [ImportNext \/ ImportsDie]_importVars PROVE ImportInv'
    OBVIOUS
  <2>1. CASE Publish \/ UNCHANGED importVars
    BY <2>1, WorldKeepsImports
  <2>2. CASE ImportsDie
    BY <2>2, CrashKeepsImports
  <2>3. ASSUME NEW i \in Imports, NEW o \in Orders, StartImport(i, o)
        PROVE  ImportInv'
    BY <2>3, ImportStarts
  <2>4. ASSUME NEW i \in Imports, ImportStep(i)
        PROVE  ImportInv'
    BY <2>4, FetchKeeps, UpsertKeeps, MarkingKeeps, RecordingKeeps, ImportGivesUp,
       CommitEltKeeps DEF ImportStep
  <2> QED BY <2>1, <2>2, <2>3, <2>4 DEF ImportNext
<1> QED BY <1>1, ImportInitInv, PTL DEF ImportSpec

\* A completed run has stored all its answer held, unless an import that had
\* fetched earlier stored later.
LEMMA ImportInvAgrees == ImportInv => ImportRunsAgree /\ ImportHealthAgrees
<1> SUFFICES ASSUME ImportInv PROVE ImportRunsAgree /\ ImportHealthAgrees  OBVIOUS
<1>1. ImportTypeOK /\ FiguresKnown /\ StartedRunsExplained
  BY DEF ImportInv
<1>2. ASSUME NEW i \in Imports, importRuns[i] = "completed", NEW k \in held[i]
      PROVE  /\ statistics[k] # 0
             /\ statistics[k] < fetched[i] =>
                  \E j \in Imports \ {i} :
                    fetched[j] = statistics[k] /\ k \in held[j] \ left[j]
  <2>1. fetched[i] # 0 /\ left[i] = {}
    BY <1>2 DEF ImportInv, ImportTrue
  <2>2. fetched[i] \in Nat
    <3>1. fetched[i] \in 0..MaxEdition
      BY <1>1 DEF ImportTypeOK
    <3> QED BY <3>1, ImportAssumption
  <2>3. k \in Figures
    BY <1>1 DEF ImportTypeOK
  <2>4. Stored(i, k)
    BY <2>1 DEF Stored
  <2>5. statistics[k] # 0
    BY <1>1, <2>3, <2>4 DEF FiguresKnown
  <2>6. PICK j \in Imports : fetched[j] = statistics[k] /\ Stored(j, k)
    BY <1>1, <2>3, <2>5 DEF FiguresKnown
  <2>7. k \in held[j] \ left[j]
    BY <2>6 DEF Stored
  <2> QED BY <2>2, <2>5, <2>6, <2>7
<1>3. CompletedImportsStored
  BY <1>2 DEF CompletedImportsStored
<1>4. ImportHealthAgrees
  BY DEF ImportInv, ImportTrue, ImportHealthAgrees
<1> QED BY <1>1, <1>3, <1>4 DEF ImportRunsAgree

\* SsbService and the ELT job: what a run row says of its import, and the health
\* log of what became of it.
THEOREM ImportsAlwaysAgree == ImportSpec => [](ImportRunsAgree /\ ImportHealthAgrees)
BY ImportInvariant, ImportInvAgrees, PTL

-----------------------------------------------------------------------------
(* DemoReset                                                               *)

ResetSpec == ResetInit /\ [][ResetNext]_resetAndDemoVars

LEMMA VisitorTypes ==
  ASSUME ResetTypeOK,
         \/ \E c \in VisitorCases : GrowOld(c)
         \/ \E d \in Uploads : WriteUpload(d) \/ StoreUpload(d)
         \/ \E s \in SeedCases : WorkOnSeed(s)
         \/ UNCHANGED resetAndDemoVars
  PROVE  ResetTypeOK' /\ UNCHANGED resetVars
<1>1. UNCHANGED resetVars
  BY DEF GrowOld, WriteUpload, StoreUpload, WorkOnSeed, resetAndDemoVars
<1>2. ASSUME NEW c \in VisitorCases, GrowOld(c) PROVE ResetTypeOK'
  BY <1>1, <1>2 DEF GrowOld, ResetTypeOK, resetVars
<1>3. ASSUME NEW d \in Uploads, WriteUpload(d) PROVE ResetTypeOK'
  BY <1>1, <1>3 DEF WriteUpload, ResetTypeOK, resetVars
<1>4. ASSUME NEW d \in Uploads, StoreUpload(d) PROVE ResetTypeOK'
  <2>1. upload' \in [Uploads -> {"none", "written", "stored", "refused"}]
        /\ docRows' \subseteq Uploads
    BY <1>4 DEF StoreUpload, ResetTypeOK
  <2> QED BY <1>1, <1>4, <2>1 DEF StoreUpload, ResetTypeOK, resetVars
<1>5. ASSUME NEW s \in SeedCases, WorkOnSeed(s) PROVE ResetTypeOK'
  <2>1. seedRow' \in [SeedCases -> Authors]
        /\ activity' \in [SeedCases -> SUBSET (Records \cup {"visitor"})]
    BY <1>5 DEF WorkOnSeed, ResetTypeOK, Authors
  <2> QED BY <1>1, <1>5, <2>1 DEF WorkOnSeed, ResetTypeOK, resetVars
<1>6. CASE UNCHANGED resetAndDemoVars
  BY <1>6 DEF ResetTypeOK, resetAndDemoVars, resetVars, demoVars
<1> QED BY <1>1, <1>2, <1>3, <1>4, <1>5, <1>6

LEMMA ResetTypes ==
  ASSUME ResetTypeOK, NEW r \in ResetRuns, ListExpired(r) \/ ResetStep(r)
  PROVE  ResetTypeOK'
<1>1. ASSUME NEW to \in {"done", "failed"} \cup ResetSteps,
             reset' = [reset EXCEPT ![r] = to]
      PROVE  reset' \in [ResetRuns -> {"idle", "done", "failed"} \cup ResetSteps]
  BY <1>1 DEF ResetTypeOK
<1>2. /\ "transaction" \in ResetSteps /\ "files" \in ResetSteps /\ "restore" \in ResetSteps
      /\ "clear" \in ResetSteps /\ "analytics" \in ResetSteps /\ "triage" \in ResetSteps
      /\ "mails" \in ResetSteps /\ "audit" \in ResetSteps
  BY DEF ResetSteps, Records
<1>3. CASE ListExpired(r)
  <2>1. listed' \in [ResetRuns -> SUBSET VisitorCases]
    BY <1>3 DEF ListExpired, ResetTypeOK
  <2>2. listedDocs' \in [ResetRuns -> SUBSET Uploads]
    BY <1>3 DEF ListExpired, ResetTypeOK
  <2>3. reset' \in [ResetRuns -> {"idle", "done", "failed"} \cup ResetSteps]
    BY <1>1, <1>2, <1>3 DEF ListExpired
  <2> QED BY <1>3, <2>1, <2>2, <2>3 DEF ListExpired, ResetTypeOK, demoVars
<1>4. CASE DeleteVisitors(r)
  <2>1. toRemove' \in [ResetRuns -> SUBSET Uploads]
        /\ toRestore' \in [ResetRuns -> SUBSET SeedCases]
    BY <1>4 DEF DeleteVisitors, ResetTypeOK
  <2>2. visitorRows' \subseteq VisitorCases /\ docRows' \subseteq Uploads
    BY <1>4 DEF DeleteVisitors, ResetTypeOK
  <2>3. reset' \in [ResetRuns -> {"idle", "done", "failed"} \cup ResetSteps]
    BY <1>1, <1>2, <1>4 DEF DeleteVisitors
  <2>4. activity' \in [SeedCases -> SUBSET (Records \cup {"visitor"})]
    BY <1>4 DEF DeleteVisitors
  <2> QED BY <1>4, <2>1, <2>2, <2>3, <2>4 DEF DeleteVisitors, ResetTypeOK
<1>5. CASE FilesRemoved(r) \/ SeedsRestored(r) \/ FailReset(r)
  <2>1. reset' \in [ResetRuns -> {"idle", "done", "failed"} \cup ResetSteps]
    BY <1>1, <1>2, <1>5 DEF FilesRemoved, SeedsRestored, FailReset
  <2>2. UNCHANGED <<listed, listedDocs, toRemove, toRestore, halfDone, toRebuild, demoVars>>
    BY <1>5 DEF FilesRemoved, SeedsRestored, FailReset
  <2> QED BY <2>1, <2>2 DEF ResetTypeOK, demoVars
<1>6. ASSUME NEW d \in Uploads, RemoveFile(r, d)
      PROVE  ResetTypeOK'
  <2>1. toRemove' \in [ResetRuns -> SUBSET Uploads] /\ disk' \subseteq Uploads
    BY <1>6 DEF RemoveFile, ResetTypeOK
  <2> QED BY <1>6, <2>1 DEF RemoveFile, ResetTypeOK
<1>7. ASSUME NEW s \in SeedCases, RestoreRow(r, s)
      PROVE  ResetTypeOK'
  <2>1. reset' \in [ResetRuns -> {"idle", "done", "failed"} \cup ResetSteps]
    BY <1>1, <1>2, <1>7 DEF RestoreRow
  <2>2. halfDone' \in [ResetRuns -> SUBSET SeedCases] /\ seedRow' \in [SeedCases -> Authors]
    BY <1>7 DEF RestoreRow, ResetTypeOK, Authors
  <2> QED BY <1>7, <2>1, <2>2 DEF RestoreRow, ResetTypeOK
<1>8. ASSUME NEW s \in SeedCases, RestoreTriage(r, s) \/ RestoreMails(r, s) \/ RestoreAudit(r, s)
      PROVE  ResetTypeOK'
  <2>1. PICK record \in Records, then \in {"mails", "audit", "restore"} :
          RestoreRecord(r, s, record, then)
    BY <1>8 DEF RestoreTriage, RestoreMails, RestoreAudit, Records
  <2>2. reset' \in [ResetRuns -> {"idle", "done", "failed"} \cup ResetSteps]
    BY <1>1, <1>2, <2>1 DEF RestoreRecord
  <2>3. activity' \in [SeedCases -> SUBSET (Records \cup {"visitor"})]
    BY <2>1 DEF RestoreRecord, ResetTypeOK
  <2>4. /\ toRestore' \in [ResetRuns -> SUBSET SeedCases]
        /\ halfDone' \in [ResetRuns -> SUBSET SeedCases]
    BY <1>8 DEF RestoreTriage, RestoreMails, RestoreAudit, ResetTypeOK
  <2> QED BY <2>1, <2>2, <2>3, <2>4 DEF RestoreRecord, ResetTypeOK
<1>9. CASE DeleteDemoAnalytics(r)
  <2>1. reset' \in [ResetRuns -> {"idle", "done", "failed"} \cup ResetSteps]
    BY <1>1, <1>2, <1>9 DEF DeleteDemoAnalytics
  <2>2. toRebuild' \in [ResetRuns -> SUBSET SeedDays] /\ snapshots' \subseteq SeedDays
    BY <1>9 DEF DeleteDemoAnalytics, ResetTypeOK
  <2> QED BY <1>9, <2>1, <2>2 DEF DeleteDemoAnalytics, ResetTypeOK
<1>10. ASSUME NEW day \in SeedDays, SeedAnalytics(r, day)
       PROVE  ResetTypeOK'
  <2>1. reset' \in [ResetRuns -> {"idle", "done", "failed"} \cup ResetSteps]
    BY <1>1, <1>2, <1>10 DEF SeedAnalytics
  <2>2. toRebuild' \in [ResetRuns -> SUBSET SeedDays] /\ snapshots' \subseteq SeedDays
    BY <1>10 DEF SeedAnalytics, ResetTypeOK
  <2> QED BY <1>10, <2>1, <2>2 DEF SeedAnalytics, ResetTypeOK
<1> QED BY <1>3, <1>4, <1>5, <1>6, <1>7, <1>8, <1>9, <1>10 DEF ResetStep

\* The days: a day without analytics stays with the run that will write it.
LEMMA DaysStay ==
  ASSUME DemoDaysExplained, SeedDays \ snapshots' \subseteq SeedDays \ snapshots,
         \A r \in ResetRuns : \A day \in toRebuild[r] \ snapshots' :
           reset[r] \in {"analytics", "failed"}
             => reset'[r] \in {"analytics", "failed"} /\ day \in toRebuild'[r]
  PROVE  DemoDaysExplained'
<1> SUFFICES ASSUME NEW day \in SeedDays \ snapshots'
             PROVE  \E r \in ResetRuns :
                      reset'[r] \in {"analytics", "failed"} /\ day \in toRebuild'[r]
  BY DEF DemoDaysExplained
<1>1. PICK r \in ResetRuns : reset[r] \in {"analytics", "failed"} /\ day \in toRebuild[r]
  BY DEF DemoDaysExplained
<1> QED BY <1>1

LEMMA DaysKept ==
  ASSUME ResetTypeOK, DemoDaysExplained, NEW r \in ResetRuns, ListExpired(r) \/ ResetStep(r)
  PROVE  DemoDaysExplained'
<1>1. ASSUME NEW to, reset' = [reset EXCEPT ![r] = to]
      PROVE  reset'[r] = to /\ \A k \in ResetRuns \ {r} : reset'[k] = reset[k]
  BY <1>1 DEF ResetTypeOK
<1>2. CASE DeleteDemoAnalytics(r)
  <2>1. reset'[r] = "analytics" /\ toRebuild'[r] = SeedDays /\ snapshots' = {}
    BY <1>2 DEF DeleteDemoAnalytics, ResetTypeOK
  <2> QED BY <2>1 DEF DemoDaysExplained
<1>3. ASSUME NEW day \in SeedDays, SeedAnalytics(r, day)
      PROVE  DemoDaysExplained'
  <2>1. /\ reset[r] = "analytics" /\ snapshots' = snapshots \cup {day}
        /\ reset' = [reset EXCEPT ![r] = IF toRebuild[r] = {day} THEN "done" ELSE "analytics"]
        /\ toRebuild' = [toRebuild EXCEPT ![r] = toRebuild[r] \ {day}]
    BY <1>3 DEF SeedAnalytics
  <2>2. /\ reset'[r] = IF toRebuild[r] = {day} THEN "done" ELSE "analytics"
        /\ \A k \in ResetRuns \ {r} : reset'[k] = reset[k]
    BY <1>1, <2>1
  <2>3. /\ toRebuild'[r] = toRebuild[r] \ {day}
        /\ \A k \in ResetRuns \ {r} : toRebuild'[k] = toRebuild[k]
    BY <2>1 DEF ResetTypeOK
  <2>4. ASSUME NEW k \in ResetRuns, NEW other \in toRebuild[k] \ snapshots',
               reset[k] \in {"analytics", "failed"}
        PROVE  reset'[k] \in {"analytics", "failed"} /\ other \in toRebuild'[k]
    <3>1. other # day
      BY <2>1
    <3> QED BY <2>2, <2>3, <2>4, <3>1
  <2> QED BY <2>1, <2>4, DaysStay
<1>4. ASSUME NEW to \in ResetSteps \cup {"failed"}, reset' = [reset EXCEPT ![r] = to],
             reset[r] \notin {"analytics", "failed"} \/ to = "failed",
             UNCHANGED <<toRebuild, snapshots>>
      PROVE  DemoDaysExplained'
  <2>1. reset'[r] = to /\ \A k \in ResetRuns \ {r} : reset'[k] = reset[k]
    BY <1>1, <1>4
  <2>2. ASSUME NEW k \in ResetRuns, reset[k] \in {"analytics", "failed"}
        PROVE  reset'[k] \in {"analytics", "failed"}
    BY <1>4, <2>1, <2>2
  <2> QED BY <1>4, <2>2, DaysStay
<1>5. \A to \in {"transaction", "files", "restore", "clear"} \cup Records : to \in ResetSteps
  BY DEF ResetSteps
<1>6. CASE ListExpired(r)
  <2>1. reset' = [reset EXCEPT ![r] = "transaction"] /\ UNCHANGED <<toRebuild, snapshots>>
        /\ reset[r] = "idle"
    BY <1>6 DEF ListExpired, demoVars
  <2> QED BY <1>4, <1>5, <2>1
<1>7. CASE DeleteVisitors(r)
  <2>1. reset' = [reset EXCEPT ![r] = "files"] /\ UNCHANGED <<toRebuild, snapshots>>
        /\ reset[r] = "transaction"
    BY <1>7 DEF DeleteVisitors
  <2> QED BY <1>4, <1>5, <2>1
<1>8. CASE FilesRemoved(r)
  <2>1. reset' = [reset EXCEPT ![r] = "restore"] /\ UNCHANGED <<toRebuild, snapshots>>
        /\ reset[r] = "files"
    BY <1>8 DEF FilesRemoved, demoVars
  <2> QED BY <1>4, <1>5, <2>1
<1>9. CASE SeedsRestored(r)
  <2>1. reset' = [reset EXCEPT ![r] = "clear"] /\ UNCHANGED <<toRebuild, snapshots>>
        /\ reset[r] = "restore"
    BY <1>9 DEF SeedsRestored, demoVars
  <2> QED BY <1>4, <1>5, <2>1
<1>10. CASE FailReset(r)
  <2>1. reset' = [reset EXCEPT ![r] = "failed"] /\ UNCHANGED <<toRebuild, snapshots>>
    BY <1>10 DEF FailReset, demoVars
  <2> QED BY <1>4, <2>1
<1>11. ASSUME NEW d \in Uploads, RemoveFile(r, d)
       PROVE  DemoDaysExplained'
  <2>1. UNCHANGED <<reset, toRebuild, snapshots>>
    BY <1>11 DEF RemoveFile
  <2> QED BY <2>1, DaysStay
<1>12. ASSUME NEW s \in SeedCases, RestoreRow(r, s)
       PROVE  DemoDaysExplained'
  <2>1. reset' = [reset EXCEPT ![r] = "triage"] /\ UNCHANGED <<toRebuild, snapshots>>
        /\ reset[r] = "restore" /\ "triage" \in Records
    BY <1>12 DEF RestoreRow, Records
  <2> QED BY <1>4, <1>5, <2>1
<1>13. ASSUME NEW s \in SeedCases, RestoreTriage(r, s) \/ RestoreMails(r, s) \/ RestoreAudit(r, s)
       PROVE  DemoDaysExplained'
  <2>1. PICK record \in Records, then \in {"mails", "audit", "restore"} :
          RestoreRecord(r, s, record, then)
    BY <1>13 DEF RestoreTriage, RestoreMails, RestoreAudit, Records
  <2>2. reset' = [reset EXCEPT ![r] = then] /\ UNCHANGED <<toRebuild, snapshots>>
        /\ reset[r] \notin {"analytics", "failed"}
    BY <2>1 DEF RestoreRecord, Records
  <2>3. then \in ResetSteps
    BY DEF ResetSteps, Records
  <2> QED BY <1>4, <2>2, <2>3
<1> QED BY <1>2, <1>3, <1>6, <1>7, <1>8, <1>9, <1>10, <1>11, <1>12, <1>13 DEF ResetStep

\* The seeds: what a run has done so far of the case it is at is not lost, or the
\* case is whole, or another run will bring what is missing.
Restores(r, s) ==
  RestoringOrFailed(r) /\ s \in toRestore[r] /\ PutBack(r, s) \subseteq activity[s]
Rewrites(r, s) == RestoringOrFailed(r) /\ s \in toRestore[r] \ halfDone[r]

SeedKnown(s) ==
  /\ Records \subseteq activity[s] \/ \E r \in ResetRuns : Restores(r, s)
  /\ seedRow[s] = "visitor" /\ "visitor" \notin activity[s] =>
       \E r \in ResetRuns : Rewrites(r, s)

LEMMA SeedKnowledge ==
  /\ (\A s \in SeedCases : SeedKnown(s)) => SeedsKnown /\ SeedsLeftWhole
  /\ SeedsKnown /\ SeedsLeftWhole => \A s \in SeedCases : SeedKnown(s)
BY DEF SeedKnown, SeedsKnown, SeedsLeftWhole, Restores, Rewrites

LEMMA SeedsStay ==
  ASSUME \A s \in SeedCases : SeedKnown(s), NEW s \in SeedCases,
         Records \cap activity[s] \subseteq Records \cap activity'[s],
         seedRow'[s] = "visitor" /\ "visitor" \notin activity'[s]
           => seedRow[s] = "visitor" /\ "visitor" \notin activity[s],
         \A r \in ResetRuns : Restores(r, s) => Restores(r, s)' \/ Records \subseteq activity'[s],
         seedRow'[s] = "visitor" /\ "visitor" \notin activity'[s]
           => \A r \in ResetRuns : Rewrites(r, s) => Rewrites(r, s)'
  PROVE  SeedKnown(s)'
<1>1. SeedKnown(s)
  OBVIOUS
<1>2. Records \subseteq activity'[s] \/ \E r \in ResetRuns : Restores(r, s)'
  BY <1>1 DEF SeedKnown
<1> QED BY <1>1, <1>2 DEF SeedKnown

\* A run that writes no seed case goes on.
LEMMA SeedsStayWhenRunGoesOn ==
  ASSUME ResetTypeOK, \A s \in SeedCases : SeedKnown(s), NEW r \in ResetRuns,
         NEW to \in {"transaction", "restore", "clear", "analytics", "done", "failed"},
         reset' = [reset EXCEPT ![r] = to],
         UNCHANGED <<toRestore, halfDone, seedRow, activity>>,
         \/ reset[r] \in {"idle", "clear", "analytics"}
         \/ reset[r] = "restore" /\ toRestore[r] = {}
         \/ to \in {"restore", "failed"}
  PROVE  \A s \in SeedCases : SeedKnown(s)'
<1> SUFFICES ASSUME NEW s \in SeedCases PROVE SeedKnown(s)'
  OBVIOUS
<1>1. reset'[r] = to /\ \A k \in ResetRuns \ {r} : reset'[k] = reset[k]
  BY DEF ResetTypeOK
<1>2. ASSUME NEW k \in ResetRuns, RestoringOrFailed(k), s \in toRestore[k]
      PROVE  RestoringOrFailed(k)' /\ (k # r => PutBack(k, s)' = PutBack(k, s))
  <2>1. CASE k # r
    BY <1>1, <1>2, <2>1 DEF RestoringOrFailed, PutBack
  <2>2. CASE k = r
    BY <1>1, <1>2, <2>2 DEF RestoringOrFailed, Records
  <2> QED BY <2>1, <2>2
<1>3. PutBack(r, s)' = {}
  BY <1>1 DEF PutBack
<1>4. ASSUME NEW k \in ResetRuns, Restores(k, s)
      PROVE  Restores(k, s)'
  BY <1>2, <1>3, <1>4 DEF Restores
<1>5. ASSUME NEW k \in ResetRuns, Rewrites(k, s)
      PROVE  Rewrites(k, s)'
  BY <1>2, <1>5 DEF Rewrites
<1> QED BY <1>4, <1>5, SeedsStay

LEMMA VisitorsDeletedKeepsSeeds ==
  ASSUME ResetInv, NEW r \in ResetRuns, DeleteVisitors(r), NEW s \in SeedCases
  PROVE  SeedKnown(s)'
<1>1. ResetTypeOK /\ halfDone[r] = {}
  BY DEF ResetInv, ResetTrue, DeleteVisitors
<1>2. /\ reset'[r] = "files" /\ toRestore'[r] = SeedCases /\ halfDone'[r] = {}
  BY <1>1 DEF DeleteVisitors, ResetTypeOK
<1>3. PutBack(r, s)' = {} /\ RestoringOrFailed(r)'
  BY <1>2 DEF PutBack, RestoringOrFailed
<1>4. Restores(r, s)' /\ Rewrites(r, s)'
  BY <1>2, <1>3 DEF Restores, Rewrites
<1> QED BY <1>4 DEF SeedKnown

\* The row of a seed case is written.
LEMMA RowKeepsSeeds ==
  ASSUME ResetTypeOK, \A s \in SeedCases : SeedKnown(s), NEW r \in ResetRuns,
         NEW t \in SeedCases, RestoreRow(r, t), NEW s \in SeedCases
  PROVE  SeedKnown(s)'
<1>1. /\ reset[r] = "restore" /\ reset'[r] = "triage" /\ UNCHANGED <<toRestore, activity>>
      /\ \A k \in ResetRuns \ {r} : reset'[k] = reset[k] /\ halfDone'[k] = halfDone[k]
      /\ halfDone'[r] = {t} /\ seedRow'[t] = "seed"
      /\ \A u \in SeedCases \ {t} : seedRow'[u] = seedRow[u]
  BY DEF RestoreRow, ResetTypeOK
<1>2. PutBack(r, s)' = {} /\ RestoringOrFailed(r)'
  BY <1>1 DEF PutBack, RestoringOrFailed, Records
<1>3. ASSUME NEW k \in ResetRuns, k # r
      PROVE  PutBack(k, s)' = PutBack(k, s) /\ (RestoringOrFailed(k) => RestoringOrFailed(k)')
  BY <1>1, <1>3 DEF PutBack, RestoringOrFailed
<1>4. ASSUME NEW k \in ResetRuns, Restores(k, s)
      PROVE  Restores(k, s)'
  BY <1>1, <1>2, <1>3, <1>4 DEF Restores
<1>5. ASSUME s # t, NEW k \in ResetRuns, Rewrites(k, s)
      PROVE  Rewrites(k, s)'
  BY <1>1, <1>2, <1>3, <1>5 DEF Rewrites
<1>6. seedRow'[s] = "visitor" => s # t /\ seedRow[s] = "visitor"
  BY <1>1
<1> QED BY <1>1, <1>4, <1>5, <1>6, SeedsStay

\* The three records of a seed case are written one after the other.
LEMMA RecordsKeepSeeds ==
  ASSUME ResetInv, \A s \in SeedCases : SeedKnown(s), NEW r \in ResetRuns,
         NEW t \in SeedCases,
         RestoreTriage(r, t) \/ RestoreMails(r, t) \/ RestoreAudit(r, t),
         NEW s \in SeedCases
  PROVE  SeedKnown(s)'
<1>1. ResetTypeOK /\ ResetTrue(r)
  BY DEF ResetInv
<1>2. PICK record \in Records, then \in {"mails", "audit", "restore"} :
        /\ RestoreRecord(r, t, record, then)
        /\ \/ record = "triage" /\ then = "mails"
           \/ record = "mails" /\ then = "audit"
           \/ record = "audit" /\ then = "restore"
  BY DEF RestoreTriage, RestoreMails, RestoreAudit, Records
<1>3. /\ reset[r] = record /\ reset'[r] = then /\ t \in halfDone[r] /\ UNCHANGED seedRow
      /\ \A k \in ResetRuns \ {r} : reset'[k] = reset[k]
      /\ activity'[t] = activity[t] \cup {record}
      /\ \A u \in SeedCases \ {t} : activity'[u] = activity[u]
  BY <1>1, <1>2 DEF RestoreRecord, ResetTypeOK
<1>4. /\ \A k \in ResetRuns \ {r} : toRestore'[k] = toRestore[k] /\ halfDone'[k] = halfDone[k]
      /\ then # "restore" => toRestore'[r] = toRestore[r] /\ halfDone'[r] = halfDone[r]
      /\ then = "restore" => toRestore'[r] = toRestore[r] \ {t} /\ halfDone'[r] = {}
  <2>1. CASE RestoreTriage(r, t) \/ RestoreMails(r, t)
    <3>1. UNCHANGED <<toRestore, halfDone>> /\ reset[r] \in {"triage", "mails"}
      BY <2>1 DEF RestoreTriage, RestoreMails, RestoreRecord
    <3>2. then # "restore"
      BY <1>2, <1>3, <3>1
    <3> QED BY <3>1, <3>2
  <2>2. CASE RestoreAudit(r, t)
    <3>1. /\ reset[r] = "audit" /\ toRestore' = [toRestore EXCEPT ![r] = toRestore[r] \ {t}]
          /\ halfDone' = [halfDone EXCEPT ![r] = {}]
      BY <2>2 DEF RestoreAudit, RestoreRecord
    <3>2. then = "restore"
      BY <1>2, <1>3, <3>1
    <3> QED BY <1>1, <3>1, <3>2 DEF ResetTypeOK
  <2> QED BY <2>1, <2>2
<1>5. activity[s] \subseteq activity'[s]
  BY <1>3
<1>6. \A u \in halfDone[r] : u = t
  BY <1>1, <1>3 DEF ResetTrue
<1>7. ASSUME NEW k \in ResetRuns, k # r
      PROVE  PutBack(k, s)' = PutBack(k, s) /\ (RestoringOrFailed(k) => RestoringOrFailed(k)')
  BY <1>3, <1>4, <1>7 DEF PutBack, RestoringOrFailed
<1>8. RestoringOrFailed(r)'
  BY <1>2, <1>3 DEF RestoringOrFailed, Records
<1>9. ASSUME Restores(r, s)
      PROVE  Restores(r, s)' \/ Records \subseteq activity'[s]
  <2>1. s \in toRestore[r] /\ PutBack(r, s) \subseteq activity[s]
    BY <1>9 DEF Restores
  <2>2. CASE s # t
    <3>1. s \notin halfDone[r] /\ s \notin halfDone'[r]
      BY <1>2, <1>4, <1>6, <2>2
    <3>2. PutBack(r, s)' = {}
      BY <3>1 DEF PutBack
    <3>3. s \in toRestore'[r]
      BY <1>2, <1>4, <2>1, <2>2
    <3> QED BY <1>8, <3>2, <3>3 DEF Restores
  <2>3. CASE s = t
    <3>1. CASE record = "triage"
      <4>1. PutBack(r, s)' \subseteq {"triage"}
        BY <1>2, <1>3, <3>1 DEF PutBack
      <4> QED BY <1>2, <1>3, <1>4, <1>8, <2>1, <2>3, <3>1, <4>1 DEF Restores
    <3>2. CASE record = "mails"
      <4>1. PutBack(r, s)' \subseteq {"triage", "mails"}
        BY <1>2, <1>3, <3>2 DEF PutBack
      <4>2. "triage" \in activity[s]
        BY <1>3, <2>1, <2>3, <3>2 DEF PutBack
      <4> QED BY <1>2, <1>3, <1>4, <1>8, <2>1, <2>3, <3>2, <4>1, <4>2 DEF Restores
    <3>3. CASE record = "audit"
      <4>1. "triage" \in activity[s] /\ "mails" \in activity[s]
        BY <1>3, <2>1, <2>3, <3>3 DEF PutBack
      <4> QED BY <1>3, <2>3, <3>3, <4>1 DEF Records
    <3> QED BY <3>1, <3>2, <3>3 DEF Records
  <2> QED BY <2>2, <2>3
<1>10. ASSUME NEW k \in ResetRuns, Restores(k, s)
       PROVE  Restores(k, s)' \/ Records \subseteq activity'[s]
  <2>1. CASE k # r
    BY <1>4, <1>5, <1>7, <1>10, <2>1 DEF Restores
  <2> QED BY <1>9, <1>10, <2>1
<1>11. ASSUME NEW k \in ResetRuns, Rewrites(k, s)
       PROVE  Rewrites(k, s)'
  <2>1. CASE k # r
    BY <1>4, <1>7, <1>11, <2>1 DEF Rewrites
  <2>2. CASE k = r
    <3>1. s # t
      BY <1>3, <1>11, <2>2 DEF Rewrites
    <3> QED BY <1>2, <1>4, <1>8, <1>11, <2>2, <3>1 DEF Rewrites
  <2> QED BY <2>1, <2>2
<1>12. "visitor" \notin activity'[s] => "visitor" \notin activity[s]
  BY <1>5
<1>13. Records \cap activity[s] \subseteq Records \cap activity'[s] /\ seedRow'[s] = seedRow[s]
  BY <1>3, <1>5
<1> QED BY <1>10, <1>11, <1>12, <1>13, SeedsStay

LEMMA SeedsKept ==
  ASSUME ResetInv, NEW r \in ResetRuns, ListExpired(r) \/ ResetStep(r)
  PROVE  \A s \in SeedCases : SeedKnown(s)'
<1>1. ResetTypeOK /\ \A s \in SeedCases : SeedKnown(s)
  BY SeedKnowledge DEF ResetInv, ResetExplained
<1>2. CASE ListExpired(r)
  <2>1. reset[r] = "idle" /\ reset' = [reset EXCEPT ![r] = "transaction"]
        /\ UNCHANGED <<toRestore, halfDone, seedRow, activity>>
    BY <1>2 DEF ListExpired, demoVars
  <2> QED BY <1>1, <2>1, SeedsStayWhenRunGoesOn
<1>3. CASE DeleteVisitors(r)
  BY <1>3, VisitorsDeletedKeepsSeeds
<1>4. CASE FilesRemoved(r)
  <2>1. reset' = [reset EXCEPT ![r] = "restore"]
        /\ UNCHANGED <<toRestore, halfDone, seedRow, activity>>
    BY <1>4 DEF FilesRemoved, demoVars
  <2> QED BY <1>1, <2>1, SeedsStayWhenRunGoesOn
<1>5. CASE SeedsRestored(r)
  <2>1. reset[r] = "restore" /\ toRestore[r] = {} /\ reset' = [reset EXCEPT ![r] = "clear"]
        /\ UNCHANGED <<toRestore, halfDone, seedRow, activity>>
    BY <1>5 DEF SeedsRestored, demoVars
  <2> QED BY <1>1, <2>1, SeedsStayWhenRunGoesOn
<1>6. CASE DeleteDemoAnalytics(r)
  <2>1. reset[r] = "clear" /\ reset' = [reset EXCEPT ![r] = "analytics"]
        /\ UNCHANGED <<toRestore, halfDone, seedRow, activity>>
    BY <1>6 DEF DeleteDemoAnalytics
  <2> QED BY <1>1, <2>1, SeedsStayWhenRunGoesOn
<1>7. CASE FailReset(r)
  <2>1. reset' = [reset EXCEPT ![r] = "failed"]
        /\ UNCHANGED <<toRestore, halfDone, seedRow, activity>>
    BY <1>7 DEF FailReset, demoVars
  <2> QED BY <1>1, <2>1, SeedsStayWhenRunGoesOn
<1>8. ASSUME NEW day \in SeedDays, SeedAnalytics(r, day)
      PROVE  \A s \in SeedCases : SeedKnown(s)'
  <2>1. PICK to \in {"done", "analytics"} : reset' = [reset EXCEPT ![r] = to]
    BY <1>8 DEF SeedAnalytics
  <2>2. reset[r] = "analytics" /\ UNCHANGED <<toRestore, halfDone, seedRow, activity>>
    BY <1>8 DEF SeedAnalytics
  <2> QED BY <1>1, <2>1, <2>2, SeedsStayWhenRunGoesOn
<1>9. ASSUME NEW d \in Uploads, RemoveFile(r, d)
      PROVE  \A s \in SeedCases : SeedKnown(s)'
  <2>1. UNCHANGED <<reset, toRestore, halfDone, seedRow, activity>>
    BY <1>9 DEF RemoveFile
  <2> QED BY <1>1, <2>1 DEF SeedKnown, Restores, Rewrites, RestoringOrFailed, PutBack
<1>10. ASSUME NEW t \in SeedCases, RestoreRow(r, t)
       PROVE  \A s \in SeedCases : SeedKnown(s)'
  BY <1>1, <1>10, RowKeepsSeeds
<1>11. ASSUME NEW t \in SeedCases, RestoreTriage(r, t) \/ RestoreMails(r, t) \/ RestoreAudit(r, t)
       PROVE  \A s \in SeedCases : SeedKnown(s)'
  BY <1>1, <1>11, RecordsKeepSeeds
<1> QED BY <1>2, <1>3, <1>4, <1>5, <1>6, <1>7, <1>8, <1>9, <1>10, <1>11 DEF ResetStep

\* The files: whose list a file without a row is on, or who came too late for it.
ExplainedBy(r, d) ==
  /\ CaseOf[d] \in listed[r]
  /\ \/ d \notin listedDocs[r]
     \/ d \in toRemove[r] /\ reset[r] \in {"files", "failed"}

FileKnown(d) ==
  /\ d \in docRows => d \in disk /\ upload[d] = "stored" /\ CaseOf[d] \in visitorRows
  /\ upload[d] = "written" => d \in disk
  /\ d \in disk \ docRows =>
       upload[d] \in {"written", "refused"} \/ \E r \in ResetRuns : ExplainedBy(r, d)

LEMMA FileKnowledge ==
  /\ ResetTypeOK /\ (\A d \in Uploads : FileKnown(d)) => UploadsKnown /\ ResetFilesExplained
  /\ UploadsKnown /\ ResetFilesExplained => \A d \in Uploads : FileKnown(d)
BY DEF FileKnown, UploadsKnown, ResetFilesExplained, ExplainedBy, ResetTypeOK

\* A run knows the same of itself when others go on.
LEMMA OtherResets ==
  ASSUME NEW k \in ResetRuns, ResetTrue(k), visitorRows' \subseteq visitorRows,
         UNCHANGED <<reset[k], listed[k], listedDocs[k], toRemove[k], halfDone[k]>>,
         \A d \in listedDocs[k] : upload[d] = "stored" => upload'[d] = "stored"
  PROVE  ResetTrue(k)'
BY DEF ResetTrue

LEMMA ListKeepsFiles ==
  ASSUME ResetInv, NEW r \in ResetRuns, ListExpired(r)
  PROVE  (\A d \in Uploads : FileKnown(d)') /\ (\A k \in ResetRuns : ResetTrue(k)')
<1>1. ResetTypeOK /\ (\A d \in Uploads : FileKnown(d)) /\ \A k \in ResetRuns : ResetTrue(k)
  BY FileKnowledge DEF ResetInv, ResetExplained
<1>2. /\ reset[r] = "idle" /\ reset'[r] = "transaction"
      /\ listed'[r] = visitorRows \cap expired
      /\ listedDocs'[r] = {d \in docRows : CaseOf[d] \in listed'[r]}
      /\ UNCHANGED <<toRemove, halfDone, visitorRows, docRows, disk, upload>>
  BY <1>1 DEF ListExpired, ResetTypeOK, demoVars
<1>3. \A k \in ResetRuns \ {r} : /\ reset'[k] = reset[k] /\ listed'[k] = listed[k]
                                  /\ listedDocs'[k] = listedDocs[k]
  BY <1>1 DEF ListExpired, ResetTypeOK
<1>4. ASSUME NEW d \in Uploads, NEW k \in ResetRuns, ExplainedBy(k, d)
      PROVE  ExplainedBy(k, d)'
  <2>1. k # r
    BY <1>1, <1>2, <1>4 DEF ExplainedBy, ResetTrue
  <2> QED BY <1>2, <1>3, <1>4, <2>1 DEF ExplainedBy
<1>5. ASSUME NEW d \in Uploads
      PROVE  FileKnown(d)'
  BY <1>1, <1>2, <1>4 DEF FileKnown
<1>6. ResetTrue(r)'
  <2>1. toRemove'[r] = {} /\ halfDone'[r] = {}
    BY <1>1, <1>2 DEF ResetTrue
  <2>2. \A d \in docRows : d \in Uploads /\ upload[d] = "stored"
    BY <1>1 DEF FileKnown, ResetTypeOK
  <2> QED BY <1>2, <2>1, <2>2 DEF ResetTrue
<1>7. ASSUME NEW k \in ResetRuns \ {r}
      PROVE  ResetTrue(k)'
  BY <1>1, <1>2, <1>3, OtherResets
<1> QED BY <1>5, <1>6, <1>7

LEMMA DeleteVisitorsKeepsFiles ==
  ASSUME ResetInv, NEW r \in ResetRuns, DeleteVisitors(r)
  PROVE  (\A d \in Uploads : FileKnown(d)') /\ (\A k \in ResetRuns : ResetTrue(k)')
<1>1. ResetTypeOK /\ (\A d \in Uploads : FileKnown(d)) /\ \A k \in ResetRuns : ResetTrue(k)
  BY FileKnowledge DEF ResetInv, ResetExplained
<1>2. /\ reset[r] = "transaction" /\ reset'[r] = "files" /\ toRemove'[r] = listedDocs[r]
      /\ visitorRows' = visitorRows \ listed[r]
      /\ docRows' = {d \in docRows : CaseOf[d] \notin listed[r]}
      /\ UNCHANGED <<listed, listedDocs, halfDone, disk, upload>>
  BY <1>1 DEF DeleteVisitors, ResetTypeOK
<1>3. \A k \in ResetRuns \ {r} : reset'[k] = reset[k] /\ toRemove'[k] = toRemove[k]
  BY <1>1 DEF DeleteVisitors, ResetTypeOK
<1>4. ASSUME NEW d \in Uploads, NEW k \in ResetRuns, ExplainedBy(k, d)
      PROVE  ExplainedBy(k, d)'
  <2>1. CASE k # r
    BY <1>2, <1>3, <1>4, <2>1 DEF ExplainedBy
  <2>2. CASE k = r
    BY <1>2, <1>4, <2>2 DEF ExplainedBy
  <2> QED BY <2>1, <2>2
<1>5. ASSUME NEW d \in Uploads, CaseOf[d] \in listed[r]
      PROVE  ExplainedBy(r, d)'
  BY <1>2, <1>5 DEF ExplainedBy
<1>6. ASSUME NEW d \in Uploads
      PROVE  FileKnown(d)'
  <2>1. FileKnown(d)
    BY <1>1
  <2>2. d \in docRows' => d \in docRows /\ CaseOf[d] \in visitorRows'
    BY <1>2, <2>1 DEF FileKnown
  <2>3. d \in disk' \ docRows' => d \in disk \ docRows \/ CaseOf[d] \in listed[r]
    BY <1>2
  <2>4. d \in disk' \ docRows' =>
          upload'[d] \in {"written", "refused"} \/ \E k \in ResetRuns : ExplainedBy(k, d)'
    BY <1>2, <1>4, <1>5, <2>1, <2>3 DEF FileKnown
  <2> QED BY <1>2, <2>1, <2>2, <2>4 DEF FileKnown
<1>7. ResetTrue(r)'
  <2>1. ResetTrue(r)
    BY <1>1
  <2>2. listed'[r] \cap visitorRows' = {}
    BY <1>2
  <2> QED BY <1>2, <2>1, <2>2 DEF ResetTrue
<1>8. ASSUME NEW k \in ResetRuns \ {r}
      PROVE  ResetTrue(k)'
  BY <1>1, <1>2, <1>3, OtherResets
<1> QED BY <1>6, <1>7, <1>8

LEMMA RemoveKeepsFiles ==
  ASSUME ResetInv, NEW r \in ResetRuns, NEW gone \in Uploads, RemoveFile(r, gone)
  PROVE  (\A d \in Uploads : FileKnown(d)') /\ (\A k \in ResetRuns : ResetTrue(k)')
<1>1. ResetTypeOK /\ (\A d \in Uploads : FileKnown(d)) /\ \A k \in ResetRuns : ResetTrue(k)
  BY FileKnowledge DEF ResetInv, ResetExplained
<1>2. /\ reset[r] = "files" /\ gone \in toRemove[r] /\ disk' = disk \ {gone}
      /\ toRemove'[r] = toRemove[r] \ {gone}
      /\ \A k \in ResetRuns \ {r} : toRemove'[k] = toRemove[k]
      /\ UNCHANGED <<reset, listed, listedDocs, halfDone, visitorRows, upload, docRows>>
  BY <1>1 DEF RemoveFile, ResetTypeOK
<1>3. gone \in listedDocs[r] /\ listed[r] \cap visitorRows = {}
  BY <1>1, <1>2 DEF ResetTrue
<1>4. upload[gone] = "stored" /\ CaseOf[gone] \notin visitorRows /\ gone \notin docRows
  <2>1. upload[gone] = "stored" /\ CaseOf[gone] \in listed[r]
    BY <1>1, <1>3 DEF ResetTrue
  <2> QED BY <1>1, <1>3, <2>1 DEF FileKnown
<1>5. ASSUME NEW d \in Uploads \ {gone}, NEW k \in ResetRuns, ExplainedBy(k, d)
      PROVE  ExplainedBy(k, d)'
  BY <1>2, <1>5 DEF ExplainedBy
<1>6. ASSUME NEW d \in Uploads
      PROVE  FileKnown(d)'
  BY <1>1, <1>2, <1>4, <1>5 DEF FileKnown
<1>7. ResetTrue(r)'
  BY <1>1, <1>2 DEF ResetTrue
<1>8. ASSUME NEW k \in ResetRuns \ {r}
      PROVE  ResetTrue(k)'
  BY <1>1, <1>2, OtherResets
<1> QED BY <1>6, <1>7, <1>8

\* A run that is not about files goes on: with none left, or leaving them.
LEMMA FilesStayWhenRunGoesOn ==
  ASSUME ResetInv, NEW r \in ResetRuns,
         NEW to \in {"restore", "clear", "analytics", "done", "failed"} \cup Records,
         reset' = [reset EXCEPT ![r] = to],
         reset[r] \in ResetSteps \ {"transaction"} \/ to = "failed",
         reset[r] = "files" => toRemove[r] = {} \/ to = "failed",
         \A s, t \in halfDone'[r] : s = t,
         \A k \in ResetRuns \ {r} : halfDone'[k] = halfDone[k],
         UNCHANGED <<listed, listedDocs, toRemove, visitorRows, upload, docRows, disk>>
  PROVE  (\A d \in Uploads : FileKnown(d)') /\ (\A k \in ResetRuns : ResetTrue(k)')
<1>1. ResetTypeOK /\ (\A d \in Uploads : FileKnown(d)) /\ \A k \in ResetRuns : ResetTrue(k)
  BY FileKnowledge DEF ResetInv, ResetExplained
<1>2. reset'[r] = to /\ \A k \in ResetRuns \ {r} : reset'[k] = reset[k]
  BY <1>1 DEF ResetTypeOK
<1>3. "failed" \notin ResetSteps
  BY DEF ResetSteps, Records
<1>4. ASSUME NEW d \in Uploads, NEW k \in ResetRuns, ExplainedBy(k, d)
      PROVE  ExplainedBy(k, d)'
  <2>1. CASE k # r
    BY <1>2, <1>4, <2>1 DEF ExplainedBy
  <2>2. CASE k = r
    BY <1>2, <1>3, <1>4, <2>2 DEF ExplainedBy
  <2> QED BY <2>1, <2>2
<1>5. ASSUME NEW d \in Uploads
      PROVE  FileKnown(d)'
  BY <1>1, <1>4 DEF FileKnown
<1>6. ResetTrue(r)'
  <2>1. to \notin {"idle", "transaction", "files"}
    BY DEF Records
  <2>2. ResetTrue(r)
    BY <1>1
  <2> QED BY <1>2, <2>1, <2>2 DEF ResetTrue
<1>7. ASSUME NEW k \in ResetRuns \ {r}
      PROVE  ResetTrue(k)'
  BY <1>1, <1>2, OtherResets
<1> QED BY <1>5, <1>6, <1>7

LEMMA FilesKept ==
  ASSUME ResetInv, NEW r \in ResetRuns, ListExpired(r) \/ ResetStep(r)
  PROVE  (\A d \in Uploads : FileKnown(d)') /\ (\A k \in ResetRuns : ResetTrue(k)')
<1> DEFINE Goal == (\A d \in Uploads : FileKnown(d)') /\ (\A k \in ResetRuns : ResetTrue(k)')
<1>1. ResetTypeOK /\ \A s, t \in halfDone[r] : s = t
  BY DEF ResetInv, ResetTrue
<1>2. \A from \in {"files", "restore", "clear", "analytics"} \cup Records :
        from \in ResetSteps \ {"transaction"}
  BY DEF ResetSteps, Records
<1> HIDE DEF Goal
<1>3. CASE ListExpired(r)
  BY <1>3, ListKeepsFiles DEF Goal
<1>4. CASE DeleteVisitors(r)
  BY <1>4, DeleteVisitorsKeepsFiles DEF Goal
<1>5. CASE FilesRemoved(r)
  <2>1. /\ reset[r] = "files" /\ toRemove[r] = {} /\ reset' = [reset EXCEPT ![r] = "restore"]
        /\ UNCHANGED <<halfDone, listed, listedDocs, toRemove, visitorRows, upload, docRows, disk>>
    BY <1>5 DEF FilesRemoved, demoVars
  <2> QED BY <1>1, <1>2, <2>1, FilesStayWhenRunGoesOn DEF Goal
<1>6. CASE SeedsRestored(r)
  <2>1. /\ reset[r] = "restore" /\ reset' = [reset EXCEPT ![r] = "clear"]
        /\ UNCHANGED <<halfDone, listed, listedDocs, toRemove, visitorRows, upload, docRows, disk>>
    BY <1>6 DEF SeedsRestored, demoVars
  <2> QED BY <1>1, <1>2, <2>1, FilesStayWhenRunGoesOn DEF Goal
<1>7. CASE DeleteDemoAnalytics(r)
  <2>1. /\ reset[r] = "clear" /\ reset' = [reset EXCEPT ![r] = "analytics"]
        /\ UNCHANGED <<halfDone, listed, listedDocs, toRemove, visitorRows, upload, docRows, disk>>
    BY <1>7 DEF DeleteDemoAnalytics
  <2> QED BY <1>1, <1>2, <2>1, FilesStayWhenRunGoesOn DEF Goal
<1>8. CASE FailReset(r)
  <2>1. /\ reset' = [reset EXCEPT ![r] = "failed"]
        /\ UNCHANGED <<halfDone, listed, listedDocs, toRemove, visitorRows, upload, docRows, disk>>
    BY <1>8 DEF FailReset, demoVars
  <2> QED BY <1>1, <1>2, <2>1, FilesStayWhenRunGoesOn DEF Goal
<1>9. ASSUME NEW day \in SeedDays, SeedAnalytics(r, day)
      PROVE  Goal
  <2>1. PICK to \in {"done", "analytics"} : reset' = [reset EXCEPT ![r] = to]
    BY <1>9 DEF SeedAnalytics
  <2>2. /\ reset[r] = "analytics"
        /\ UNCHANGED <<halfDone, listed, listedDocs, toRemove, visitorRows, upload, docRows, disk>>
    BY <1>9 DEF SeedAnalytics
  <2> QED BY <1>1, <1>2, <2>1, <2>2, FilesStayWhenRunGoesOn DEF Goal
<1>10. ASSUME NEW d \in Uploads, RemoveFile(r, d)
       PROVE  Goal
  BY <1>10, RemoveKeepsFiles DEF Goal
<1>11. ASSUME NEW s \in SeedCases, RestoreRow(r, s)
       PROVE  Goal
  <2>1. /\ reset[r] = "restore" /\ reset' = [reset EXCEPT ![r] = "triage"]
        /\ halfDone' = [halfDone EXCEPT ![r] = {s}]
        /\ UNCHANGED <<listed, listedDocs, toRemove, visitorRows, upload, docRows, disk>>
    BY <1>11 DEF RestoreRow
  <2>2. halfDone'[r] = {s} /\ \A k \in ResetRuns \ {r} : halfDone'[k] = halfDone[k]
    BY <1>1, <2>1 DEF ResetTypeOK
  <2>3. "triage" \in Records
    BY DEF Records
  <2> QED BY <1>2, <2>1, <2>2, <2>3, FilesStayWhenRunGoesOn DEF Goal
<1>12. ASSUME NEW s \in SeedCases, RestoreTriage(r, s) \/ RestoreMails(r, s) \/ RestoreAudit(r, s)
       PROVE  Goal
  <2>1. PICK record \in Records, then \in {"mails", "audit", "restore"} :
          RestoreRecord(r, s, record, then)
    BY <1>12 DEF RestoreTriage, RestoreMails, RestoreAudit, Records
  <2>2. /\ reset[r] = record /\ reset' = [reset EXCEPT ![r] = then]
        /\ UNCHANGED <<listed, listedDocs, toRemove, visitorRows, upload, docRows, disk>>
    BY <2>1 DEF RestoreRecord
  <2>3. halfDone' \in {halfDone, [halfDone EXCEPT ![r] = {}]}
    BY <1>12 DEF RestoreTriage, RestoreMails, RestoreAudit
  <2>4. /\ \A t, u \in halfDone'[r] : t = u
        /\ \A k \in ResetRuns \ {r} : halfDone'[k] = halfDone[k]
    BY <1>1, <2>3 DEF ResetTypeOK
  <2>5. then \in {"restore", "clear", "analytics", "done", "failed"} \cup Records
    BY DEF Records
  <2>6. reset[r] \in ResetSteps \ {"transaction"} /\ reset[r] # "files"
    BY <1>2, <2>2 DEF Records
  <2> QED BY <2>2, <2>4, <2>5, <2>6, FilesStayWhenRunGoesOn DEF Goal
<1> QED BY <1>3, <1>4, <1>5, <1>6, <1>7, <1>8, <1>9, <1>10, <1>11, <1>12 DEF ResetStep, Goal

\* The visitors, who may add to a case until it is deleted.
LEMMA VisitorsKeepReset ==
  ASSUME ResetInv,
         \/ \E c \in VisitorCases : GrowOld(c)
         \/ \E d \in Uploads : WriteUpload(d) \/ StoreUpload(d)
         \/ \E s \in SeedCases : WorkOnSeed(s)
         \/ UNCHANGED resetAndDemoVars
  PROVE  /\ DemoDaysExplained' /\ (\A s \in SeedCases : SeedKnown(s)')
         /\ (\A d \in Uploads : FileKnown(d)') /\ (\A k \in ResetRuns : ResetTrue(k)')
<1>1. /\ ResetTypeOK /\ DemoDaysExplained /\ (\A s \in SeedCases : SeedKnown(s))
      /\ (\A d \in Uploads : FileKnown(d)) /\ \A k \in ResetRuns : ResetTrue(k)
  BY FileKnowledge, SeedKnowledge DEF ResetInv, ResetExplained
<1>2. UNCHANGED <<reset, listed, listedDocs, toRemove, toRestore, halfDone, toRebuild>>
  BY <1>1, VisitorTypes DEF resetVars
<1>3. UNCHANGED <<snapshots, visitorRows>>
  BY DEF GrowOld, WriteUpload, StoreUpload, WorkOnSeed, resetAndDemoVars, demoVars
<1>4. DemoDaysExplained'
  BY <1>1, <1>2, <1>3 DEF DemoDaysExplained
<1>5. ASSUME NEW s \in SeedCases
      PROVE  SeedKnown(s)'
  <2>1. ASSUME NEW w \in SeedCases, WorkOnSeed(w)
        PROVE  /\ activity[s] \subseteq activity'[s]
               /\ seedRow'[s] = seedRow[s] \/ "visitor" \in activity'[s]
    BY <1>1, <2>1 DEF WorkOnSeed, ResetTypeOK
  <2>2. /\ activity[s] \subseteq activity'[s]
        /\ seedRow'[s] = seedRow[s] \/ "visitor" \in activity'[s]
    BY <2>1 DEF GrowOld, WriteUpload, StoreUpload, resetAndDemoVars, demoVars
  <2>3. \A r \in ResetRuns : /\ RestoringOrFailed(r)' = RestoringOrFailed(r)
                             /\ PutBack(r, s)' = PutBack(r, s)
    BY <1>2 DEF RestoringOrFailed, PutBack
  <2>4. \A r \in ResetRuns : Restores(r, s) => Restores(r, s)'
    BY <1>2, <2>2, <2>3 DEF Restores
  <2>5. \A r \in ResetRuns : Rewrites(r, s) => Rewrites(r, s)'
    BY <1>2, <2>3 DEF Rewrites
  <2>6. /\ Records \cap activity[s] \subseteq Records \cap activity'[s]
        /\ seedRow'[s] = "visitor" /\ "visitor" \notin activity'[s]
             => seedRow[s] = "visitor" /\ "visitor" \notin activity[s]
    BY <2>2
  <2> QED BY <1>1, <2>4, <2>5, <2>6, SeedsStay
<1>6. \A d \in Uploads : \A r \in ResetRuns : ExplainedBy(r, d) => ExplainedBy(r, d)'
  BY <1>2 DEF ExplainedBy
<1>7. /\ \A d \in Uploads : FileKnown(d)'
      /\ \A d \in Uploads : upload[d] = "stored" => upload'[d] = "stored"
  <2>1. CASE UNCHANGED <<upload, docRows, disk>>
    BY <1>1, <1>3, <1>6, <2>1 DEF FileKnown
  <2>2. ASSUME NEW new \in Uploads, WriteUpload(new)
        PROVE  /\ \A d \in Uploads : FileKnown(d)'
               /\ \A d \in Uploads : upload[d] = "stored" => upload'[d] = "stored"
    <3>1. /\ upload[new] = "none" /\ upload'[new] = "written" /\ disk' = disk \cup {new}
          /\ \A d \in Uploads \ {new} : upload'[d] = upload[d]
          /\ docRows' = docRows
      BY <1>1, <2>2 DEF WriteUpload, ResetTypeOK
    <3> QED BY <1>1, <1>3, <1>6, <3>1 DEF FileKnown
  <2>3. ASSUME NEW new \in Uploads, StoreUpload(new)
        PROVE  /\ \A d \in Uploads : FileKnown(d)'
               /\ \A d \in Uploads : upload[d] = "stored" => upload'[d] = "stored"
    <3>1. /\ upload[new] = "written" /\ disk' = disk
          /\ \A d \in Uploads \ {new} : upload'[d] = upload[d]
          /\ \/ /\ CaseOf[new] \in visitorRows /\ upload'[new] = "stored"
                /\ docRows' = docRows \cup {new}
             \/ upload'[new] = "refused" /\ docRows' = docRows
      BY <1>1, <2>3 DEF StoreUpload, ResetTypeOK
    <3> QED BY <1>1, <1>3, <1>6, <3>1 DEF FileKnown
  <2>4. CASE \/ \E c \in VisitorCases : GrowOld(c)
             \/ \E s \in SeedCases : WorkOnSeed(s)
             \/ UNCHANGED resetAndDemoVars
    BY <2>1, <2>4 DEF GrowOld, WorkOnSeed, resetAndDemoVars, demoVars
  <2> QED BY <2>2, <2>3, <2>4
<1>8. ASSUME NEW k \in ResetRuns
      PROVE  ResetTrue(k)'
  <2>1. \A d \in listedDocs[k] : d \in Uploads
    BY <1>1 DEF ResetTypeOK
  <2> QED BY <1>1, <1>2, <1>3, <1>7, <2>1, OtherResets
<1> QED BY <1>4, <1>5, <1>7, <1>8

LEMMA ResetInitInv == ResetInit => ResetInv
<1> SUFFICES ASSUME ResetInit PROVE ResetInv  OBVIOUS
<1>1. ResetTypeOK
  BY DEF ResetInit, ResetTypeOK, Authors
<1>2. ResetExplained /\ SeedsKnown /\ UploadsKnown
  BY DEF ResetInit, ResetExplained, SeedsLeftWhole, DemoDaysExplained, ResetFilesExplained,
         SeedsKnown, UploadsKnown
<1>3. \A r \in ResetRuns : ResetTrue(r)
  BY DEF ResetInit, ResetTrue
<1> QED BY <1>1, <1>2, <1>3 DEF ResetInv

THEOREM ResetInvariant == ResetSpec => []ResetInv
<1>1. ResetInv /\ [ResetNext]_resetAndDemoVars => ResetInv'
  <2> SUFFICES ASSUME ResetInv, [ResetNext]_resetAndDemoVars PROVE ResetInv'
    OBVIOUS
  <2>1. ResetTypeOK /\ DemoDaysExplained
    BY DEF ResetInv, ResetExplained
  <2>2. /\ ResetTypeOK' /\ DemoDaysExplained' /\ (\A s \in SeedCases : SeedKnown(s)')
        /\ (\A d \in Uploads : FileKnown(d)') /\ (\A k \in ResetRuns : ResetTrue(k)')
    <3>1. CASE \E r \in ResetRuns : ListExpired(r) \/ ResetStep(r)
      BY <2>1, <3>1, ResetTypes, DaysKept, SeedsKept, FilesKept
    <3>2. CASE \/ \E c \in VisitorCases : GrowOld(c)
               \/ \E d \in Uploads : WriteUpload(d) \/ StoreUpload(d)
               \/ \E s \in SeedCases : WorkOnSeed(s)
               \/ UNCHANGED resetAndDemoVars
      BY <2>1, <3>2, VisitorTypes, VisitorsKeepReset
    <3> QED BY <3>1, <3>2 DEF ResetNext
  <2>3. SeedsKnown' /\ SeedsLeftWhole'
    BY <2>2 DEF SeedKnown, SeedsKnown, SeedsLeftWhole, Restores, Rewrites
  <2>4. UploadsKnown' /\ ResetFilesExplained'
    BY <2>2 DEF FileKnown, UploadsKnown, ResetFilesExplained, ExplainedBy, ResetTypeOK
  <2> QED BY <2>2, <2>3, <2>4 DEF ResetInv, ResetExplained
<1> QED BY <1>1, ResetInitInv, PTL DEF ResetSpec

\* runDemoReset: what it leaves behind is whole or explained, however many of them
\* overlap and fail.
THEOREM ResetAlwaysExplained == ResetSpec => []ResetExplained
<1>1. ResetInv => ResetExplained
  BY DEF ResetInv
<1> QED BY <1>1, ResetInvariant, PTL

-----------------------------------------------------------------------------
(* MCServices: one of them at a time is one of each.                       *)

LEMMA ServicesImplement ==
  Spec => RightsSpec /\ ProviderSpec /\ LookupSpec /\ ImportSpec /\ ResetSpec
<1>1. Init => RightsInit /\ ProviderInit /\ LookupInit /\ ImportInit /\ ResetInit
  BY DEF Init
<1>2. [Next]_vars => [RightsNext]_rightsVars
  BY DEF Next, vars, IntakeAndRightsNext, ProviderNext, LookupNext, PopulationNext, DemoNext
<1>3. [Next]_vars => [\E c \in Calls : BeginCall(c) \/ CallSettles(c)]_providerVars
  BY DEF Next, vars, IntakeAndRightsNext, ProviderNext, LookupNext, PopulationNext, DemoNext
<1>4. [Next]_vars => [\E l \in Lookups : StartLookup(l) \/ LookupStep(l)]_lookupVars
  BY DEF Next, vars, IntakeAndRightsNext, ProviderNext, LookupNext, PopulationNext, DemoNext
<1>5. [Next]_vars => [ImportNext \/ ImportsDie]_importVars
  BY DEF Next, vars, IntakeAndRightsNext, ProviderNext, LookupNext, PopulationNext, DemoNext
<1>6. [Next]_vars => [ResetNext]_resetAndDemoVars
  BY DEF Next, vars, IntakeAndRightsNext, ProviderNext, LookupNext, PopulationNext, DemoNext
<1> QED BY <1>1, <1>2, <1>3, <1>4, <1>5, <1>6, PTL
      DEF Spec, RightsSpec, ProviderSpec, LookupSpec, ImportSpec, ResetSpec

\* Both AI providers, for any scores, departments and number of attempts: what a
\* call of OpenAI is repeated for and reported as, and the mock's category and
\* department.
THEOREM ProvidersAlwaysAgree == Spec => []ProvidersAgree
<1>1. RetriesAndClassesAgree /\ AnswersAreMocks => ProvidersAgree
  BY MocksFit DEF ProvidersAgree
<1> QED BY <1>1, ServicesImplement, RetriesAlwaysAgree, AnswersStayMocks, PTL

\* The health log blames Kartverket and SSB for what they did, and agrees with
\* the import runs.
THEOREM HealthEventsAlwaysAgree == Spec => []HealthEventsAgree
<1>1. LookupInv /\ ImportInv => HealthEventsAgree
  BY LookupInvBlames, ImportInvAgrees DEF HealthEventsAgree
<1> QED BY <1>1, ServicesImplement, LookupInvariant, ImportInvariant, PTL

\* Import run rows, whatever the API, the ELT job and SSB do to each other.
THEOREM ImportRunsAlwaysAgree == Spec => []ImportRunsAgree
BY ServicesImplement, ImportsAlwaysAgree, PTL

\* Demo resets beside the visitors.
THEOREM ResetExplainedBesideServices == Spec => []ResetExplained
BY ServicesImplement, ResetAlwaysExplained, PTL

\* Intake, the privacy officer and the services keep their types.
THEOREM ServicesTypeCorrect == Spec => []TypeOK
<1>1. ProviderInv /\ LookupInv /\ ImportInv /\ ResetInv /\ RightsTypeOK => TypeOK
  BY DEF ProviderInv, LookupInv, ImportInv, ResetInv, TypeOK
<1> QED BY <1>1, ServicesImplement, RightsTypeCorrect, ProviderInvariant, LookupInvariant,
           ImportInvariant, ResetInvariant, PTL

=============================================================================
