--------------------------- MODULE TriageProvider ---------------------------
(***************************************************************************)
(* The two AI providers behind a triage run: OpenAIProvider, which calls a *)
(* remote model at most OPENAI_MAX_ATTEMPTS times and sorts whatever goes  *)
(* wrong into four classes, and MockAIProvider, which scores keywords.     *)
(*                                                                         *)
(* A call is one generateCaseTriage.  Every fetch settles: it is answered, *)
(* or rejects, at the latest when its AbortSignal fires.                   *)
(***************************************************************************)
EXTENDS Sequences, Naturals, SequencesExt

CONSTANTS
  Calls,            \* the calls of generateCaseTriage
  MockCalls,        \* those that go to the mock provider
  MaxAttempts,      \* OPENAI_MAX_ATTEMPTS
  MockInputs,       \* what the mock provider may be asked
  DefaultSlug       \* 'technical_department'

ASSUME CallsAssumption ==
  /\ MockCalls \subseteq Calls
  /\ MaxAttempts \in Nat \ {0}

\* Some categories have keywords; departments are named by slugs.
ASSUME MockAssumption ==
  \A input \in MockInputs :
    /\ input.scores \in Seq(Nat) /\ Len(input.scores) > 0
    /\ input.departments \in Seq(STRING)

Failures == {"timeout", "provider_error", "invalid_response",
             "validation_failed"}

Outcomes == {"none", "completed"} \cup Failures

\* The status classes of a response: 2xx, one of 408, 429 and 5xx, another.
Statuses == {"ok", "retryable", "refused"}

\* How a fetch rejects: its AbortSignal fired, or anything else.
Errors == {"abort", "network"}

\* What the body of a response turns out to be: not readable as JSON (the
\* signal may fire while it is read), without text, text that is not JSON,
\* JSON that fails the schema, or a triage.
Bodies == {"unreadable", "textless", "malformed", "invalid", "valid"}

VARIABLES
  fetching,   \* the calls that wait for a fetch
  reading,    \* the calls that wait for the body of the last response
  met,        \* [Calls -> what each attempt met so far]
  outcome,    \* [Calls -> how the call settled]
  suggested   \* [MockCalls -> <<input, answer>> of the mock provider]

providerVars == <<fetching, reading, met, outcome, suggested>>

NotAsked == <<>>

ProviderInit ==
  /\ fetching = {} /\ reading = {}
  /\ met = [c \in Calls |-> <<>>]
  /\ outcome = [c \in Calls |-> "none"]
  /\ suggested = [c \in MockCalls |-> NotAsked]

ProviderTypeOK ==
  /\ fetching \subseteq Calls \ MockCalls
  /\ reading \subseteq Calls \ MockCalls
  /\ met \in [Calls -> Seq(Statuses \cup Errors)]
  /\ outcome \in [Calls -> Outcomes]
  /\ DOMAIN suggested = MockCalls

Fresh(c) ==
  outcome[c] = "none" /\ met[c] = <<>> /\ c \notin fetching \cup reading

Settle(c, how) == outcome' = [outcome EXCEPT ![c] = how]

-----------------------------------------------------------------------------
(* OpenAIProvider                                                          *)

\* Without an API key, or in CI, nothing is sent.
NotConfigured(c) ==
  /\ Fresh(c) /\ c \notin MockCalls
  /\ Settle(c, "provider_error")
  /\ UNCHANGED <<fetching, reading, met, suggested>>

SendFirst(c) ==
  /\ Fresh(c) /\ c \notin MockCalls
  /\ fetching' = fetching \cup {c}
  /\ UNCHANGED <<reading, met, outcome, suggested>>

LastAttempt(c) == Len(met[c]) + 1 = MaxAttempts

\* isRetryableStatus
Retryable(status) == status = "retryable"

\* The loop of fetchWithRetry: try again, or leave it with the response.
Answered(c, status) ==
  /\ c \in fetching
  /\ met' = [met EXCEPT ![c] = Append(@, status)]
  /\ IF Retryable(status) /\ ~LastAttempt(c)
     THEN UNCHANGED <<fetching, reading>>
     ELSE fetching' = fetching \ {c} /\ reading' = reading \cup {c}
  /\ UNCHANGED <<outcome, suggested>>

\* Mutant: any aborted attempt makes it a timeout.
RejectedAfterAbort(c, error) ==
  /\ c \in fetching
  /\ met' = [met EXCEPT ![c] = Append(@, error)]
  /\ IF error = "abort" /\ ~LastAttempt(c)
     THEN UNCHANGED <<fetching, outcome>>
     ELSE /\ fetching' = fetching \ {c}
          /\ Settle(c, IF "abort" \in Range(met'[c]) THEN "timeout" ELSE "provider_error")
  /\ UNCHANGED <<reading, suggested>>

\* Only a fetch that was aborted is repeated; the last error names the class.
Rejected(c, error) ==
  /\ c \in fetching
  /\ met' = [met EXCEPT ![c] = Append(@, error)]
  /\ IF error = "abort" /\ ~LastAttempt(c)
     THEN UNCHANGED <<fetching, outcome>>
     ELSE /\ fetching' = fetching \ {c}
          /\ Settle(c, IF error = "abort" THEN "timeout" ELSE "provider_error")
  /\ UNCHANGED <<reading, suggested>>

\* The body is parsed before the status is looked at.
BodyOutcome(status, body) ==
  CASE body = "unreadable"              -> "invalid_response"
    [] body # "unreadable" /\ status # "ok" -> "provider_error"
    [] body \in {"textless", "malformed"} /\ status = "ok" -> "invalid_response"
    [] body = "invalid" /\ status = "ok" -> "validation_failed"
    [] body = "valid" /\ status = "ok"   -> "completed"

ReadBody(c, body) ==
  /\ c \in reading
  /\ reading' = reading \ {c}
  /\ Settle(c, BodyOutcome(Last(met[c]), body))
  /\ UNCHANGED <<fetching, met, suggested>>

-----------------------------------------------------------------------------
(* MockAIProvider.  An input has the keyword score of each category, in    *)
(* the order of categoryKeywordGroups, the tenant's departments by name    *)
(* and, per category, its preferred department and the departments whose   *)
(* name or description has one of its keywords.                            *)

\* Mutant: of equal scores the last one wins.
LastBestUpTo(scores) ==
  LET best[i \in DOMAIN scores] ==
        IF i = 1 \/ scores[i] >= scores[best[i - 1]] THEN i ELSE best[i - 1]
  IN  best

\* The reduce of chooseCategory: the best of the first i scores is kept unless
\* the next one is better.
BestUpTo(scores) ==
  LET best[i \in DOMAIN scores] ==
        IF i = 1 \/ scores[i] > scores[best[i - 1]] THEN i ELSE best[i - 1]
  IN  best

\* chooseCategory; category 0 is general_inquiry, when nothing matches.
ChooseCategory(scores) ==
  LET best == BestUpTo(scores)[Len(scores)]
  IN  IF scores[best] > 0 THEN best ELSE 0

\* The places of the departments in S, and the one find returns.
PlacesIn(departments, S) == {i \in DOMAIN departments : departments[i] \in S}
FirstPlace(places) == CHOOSE i \in places : \A j \in places : i <= j

\* chooseDepartment
ChooseDepartment(input, category) ==
  LET preferred == PlacesIn(input.departments, {input.preferred[category]})
      matching  == PlacesIn(input.departments, input.keywordsIn[category])
  IN  IF preferred # {} THEN input.departments[FirstPlace(preferred)]
      ELSE IF matching # {} THEN input.departments[FirstPlace(matching)]
      ELSE IF input.departments # <<>> THEN input.departments[1]
      ELSE DefaultSlug

MockAnswer(input) ==
  LET category == ChooseCategory(input.scores)
  IN  [category |-> category, slug |-> ChooseDepartment(input, category)]

AskMock(c, input) ==
  /\ Fresh(c) /\ c \in MockCalls
  /\ suggested' = [suggested EXCEPT ![c] = <<input, MockAnswer(input)>>]
  /\ Settle(c, "completed")
  /\ UNCHANGED <<fetching, reading, met>>

-----------------------------------------------------------------------------

BeginCall(c) ==
  NotConfigured(c) \/ SendFirst(c) \/ \E input \in MockInputs : AskMock(c, input)

CallSettles(c) ==
  \/ \E status \in Statuses : Answered(c, status)
  \/ \E error \in Errors : Rejected(c, error)
  \/ \E body \in Bodies : ReadBody(c, body)

-----------------------------------------------------------------------------
(* Properties.                                                             *)

\* fetchWithRetry repeats a call only after an answer or an abort that may
\* pass, and a call is reported as timed out exactly when its last allowed
\* attempt was aborted before any answer: neither an earlier abort nor a late
\* network error may change the class.
RetriesAndClassesAgree ==
  \A c \in Calls :
    /\ Len(met[c]) <= MaxAttempts
    /\ \A i \in 1..(Len(met[c]) - 1) : met[c][i] \in {"abort", "retryable"}
    /\ (outcome[c] = "timeout") <=>
         (Len(met[c]) = MaxAttempts /\ met[c][MaxAttempts] = "abort")
    /\ outcome[c] = "completed" /\ c \notin MockCalls => Last(met[c]) = "ok"

\* The mock provider names the first of the best scoring categories and a
\* department the tenant has; only a tenant without departments is sent to the
\* default one, which it does not have.
MockFitsInput ==
  \A c \in MockCalls : suggested[c] # NotAsked =>
    LET input  == suggested[c][1]
        answer == suggested[c][2]
        scores == input.scores
    IN  /\ answer.category = 0 <=> \A i \in DOMAIN scores : scores[i] = 0
        /\ answer.category # 0 =>
             /\ \A i \in DOMAIN scores : scores[i] <= scores[answer.category]
             /\ \A i \in 1..(answer.category - 1) :
                  scores[i] < scores[answer.category]
        /\ \/ answer.slug \in Range(input.departments)
           \/ input.departments = <<>> /\ answer.slug = DefaultSlug

\* Both providers of the interface AIProvider do what a triage run relies on.
ProvidersAgree == RetriesAndClassesAgree /\ MockFitsInput

=============================================================================
