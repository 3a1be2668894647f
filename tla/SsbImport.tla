------------------------------ MODULE SsbImport ------------------------------
(***************************************************************************)
(* Population figures from Statistics Norway, imported by two programs     *)
(* into the same tables: SsbService of the API, which commits every write  *)
(* by itself, and the ELT job, which does the same work in one transaction *)
(* and rolls everything back, its own failed mark included, when it fails. *)
(*                                                                         *)
(* SSB may publish a new edition of its figures at any time; an import     *)
(* stores the figures its answer held, which nobody compares with those it *)
(* asked for.  A figure is told by its edition.                            *)
(***************************************************************************)
EXTENDS Naturals, FiniteSets

CONSTANTS
  Imports,          \* the imports that may be asked for
  EltImports,       \* those run by the ELT job
  Orders,           \* what an import may ask for: a year and municipalities
  Municipalities,
  Years,
  MaxEdition        \* bounds how often SSB publishes

Order == [year : Years, codes : SUBSET Municipalities]
NoOrder == [year |-> 0, codes |-> {}]

ASSUME ImportAssumption ==
  /\ EltImports \subseteq Imports
  /\ Orders \subseteq Order
  /\ Years \subseteq Nat \ {0}
  /\ MaxEdition \in Nat \ {0}

VARIABLES
  edition,    \* the edition SSB serves
  statistics, \* [municipality and year -> edition stored, 0 for no row]
  importRuns, \* [Imports -> status of the import run row]
  importHealth, \* <<import, status>>: the integration health events
  importing,  \* [Imports -> where the import is]
  order,      \* [Imports -> what it was asked for]
  fetched,    \* [Imports -> the edition it fetched]
  held,       \* [Imports -> the municipalities and years its answer held]
  left        \* [Imports -> those of them it still has to store]

importVars == <<edition, statistics, importRuns, importHealth, importing,
                order, fetched, held, left>>

Figures == Municipalities \X Years

ImportSteps == {"fetch", "upsert", "complete", "success", "markFailed",
                "failure", "commit"}
ImportStates == {"idle", "done", "rejected", "dead"} \cup ImportSteps

Running(i) == importing[i] \in ImportSteps

ImportInit ==
  /\ edition = 1
  /\ statistics = [k \in Figures |-> 0]
  /\ importRuns = [i \in Imports |-> "none"]
  /\ importHealth = {}
  /\ importing = [i \in Imports |-> "idle"]
  /\ order = [i \in Imports |-> NoOrder]
  /\ fetched = [i \in Imports |-> 0]
  /\ held = [i \in Imports |-> {}]
  /\ left = [i \in Imports |-> {}]

ImportTypeOK ==
  /\ edition \in 1..MaxEdition
  /\ statistics \in [Figures -> 0..MaxEdition]
  /\ importRuns \in [Imports -> {"none", "started", "completed", "failed"}]
  /\ importHealth \subseteq (Imports \ EltImports) \X {"success", "failed"}
  /\ importing \in [Imports -> ImportStates]
  /\ order \in [Imports -> Order \cup {NoOrder}]
  /\ fetched \in [Imports -> 0..MaxEdition]
  /\ held \in [Imports -> SUBSET Figures]
  /\ left \in [Imports -> SUBSET Figures]

ImportGoes(i, from, to) ==
  /\ importing[i] = from
  /\ importing' = [importing EXCEPT ![i] = to]

MarkRun(i, status) == importRuns' = [importRuns EXCEPT ![i] = status]

\* SSB, outside the system.
Publish ==
  /\ edition < MaxEdition
  /\ edition' = edition + 1
  /\ UNCHANGED <<statistics, importRuns, importHealth, importing, order,
                 fetched, held, left>>

-----------------------------------------------------------------------------
(* importMunicipalityPopulation; every write is committed by itself.       *)

CreateRun(i, o) ==
  /\ i \notin EltImports
  /\ o.codes # {}
  /\ ImportGoes(i, "idle", "fetch")
  /\ MarkRun(i, "started")
  /\ order' = [order EXCEPT ![i] = o]
  /\ UNCHANGED <<edition, statistics, importHealth, fetched, held, left>>

\* parsePopulationDataset, parse_population_jsonstat: whatever regions the answer
\* holds, for the answer's own year in the API and the year asked for in the ELT
\* job, which does not ask when it has no municipalities.
AnswersTo(i) ==
  {regions \X {year} : regions \in SUBSET Municipalities,
                       year \in IF i \in EltImports THEN {order[i].year} ELSE Years}

Fetch(i) ==
  \E answer \in AnswersTo(i) :
    /\ i \in EltImports /\ order[i].codes = {} => answer = {}
    /\ ImportGoes(i, "fetch", IF i \in EltImports THEN "commit"
                              ELSE IF answer = {} THEN "complete" ELSE "upsert")
    /\ fetched' = [fetched EXCEPT ![i] = edition]
    /\ held' = [held EXCEPT ![i] = answer]
    /\ left' = [left EXCEPT ![i] = answer]
    /\ UNCHANGED <<edition, statistics, importRuns, importHealth, order>>

\* Mutant: the first figure is taken for the whole answer.
UpsertFirstOnly(i, k) ==
  /\ k \in left[i]
  /\ ImportGoes(i, "upsert", "complete")
  /\ left' = [left EXCEPT ![i] = {}]
  /\ statistics' = [statistics EXCEPT ![k] = fetched[i]]
  /\ UNCHANGED <<edition, importRuns, importHealth, order, fetched, held>>

Upsert(i, k) ==
  /\ k \in left[i]
  /\ ImportGoes(i, "upsert", IF left[i] = {k} THEN "complete" ELSE "upsert")
  /\ left' = [left EXCEPT ![i] = @ \ {k}]
  /\ statistics' = [statistics EXCEPT ![k] = fetched[i]]
  /\ UNCHANGED <<edition, importRuns, importHealth, order, fetched, held>>

\* Mutant: the success is recorded first.
CompleteRunAfterEvent(i) ==
  /\ ImportGoes(i, "complete", "success")
  /\ importHealth' = importHealth \cup {<<i, "success">>}
  /\ UNCHANGED <<edition, statistics, importRuns, order, fetched, held, left>>

CompleteRun(i) ==
  /\ ImportGoes(i, "complete", "success")
  /\ MarkRun(i, "completed")
  /\ UNCHANGED <<edition, statistics, importHealth, order, fetched, held, left>>

\* recordIntegrationEvent swallows the error of its insert.
RecordImportHealth(i, status) ==
  importHealth' \in {importHealth, importHealth \cup {<<i, status>>}}

RecordImportSuccess(i) ==
  /\ ImportGoes(i, "success", "done")
  /\ RecordImportHealth(i, "success")
  /\ UNCHANGED <<edition, statistics, importRuns, order, fetched, held, left>>

\* Mutant: the error of an upsert is only logged.
ImportFailsSilently(i) ==
  /\ importing[i] \in {"fetch", "upsert", "complete"} /\ i \notin EltImports
  /\ ImportGoes(i, importing[i], "failure")
  /\ UNCHANGED <<edition, statistics, importRuns, importHealth, order,
                 fetched, held, left>>

\* Anything the try block awaits may reject, the last update included.
ImportFails(i) ==
  /\ importing[i] \in {"fetch", "upsert", "complete"} /\ i \notin EltImports
  /\ ImportGoes(i, importing[i], "markFailed")
  /\ UNCHANGED <<edition, statistics, importRuns, importHealth, order, fetched, held,
                 left>>

MarkFailed(i) ==
  /\ ImportGoes(i, "markFailed", "failure")
  /\ MarkRun(i, "failed")
  /\ UNCHANGED <<edition, statistics, importHealth, order, fetched, held, left>>

\* The catch block's own update rejects: its error is thrown instead.
MarkFailedFails(i) ==
  /\ ImportGoes(i, "markFailed", "rejected")
  /\ UNCHANGED <<edition, statistics, importRuns, importHealth, order, fetched, held,
                 left>>

RecordImportFailure(i) ==
  /\ ImportGoes(i, "failure", "rejected")
  /\ RecordImportHealth(i, "failed")
  /\ UNCHANGED <<edition, statistics, importRuns, order, fetched, held, left>>

-----------------------------------------------------------------------------
(* import_ssb_population; nobody sees any of it before the commit.         *)

BeginElt(i, o) ==
  /\ i \in EltImports
  /\ ImportGoes(i, "idle", "fetch")
  /\ order' = [order EXCEPT ![i] = o]
  /\ UNCHANGED <<edition, statistics, importRuns, importHealth, fetched, held, left>>

CommitElt(i) ==
  /\ ImportGoes(i, "commit", "done")
  /\ MarkRun(i, "completed")
  /\ statistics' = [k \in Figures |-> IF k \in held[i] THEN fetched[i] ELSE statistics[k]]
  /\ left' = [left EXCEPT ![i] = {}]
  /\ UNCHANGED <<edition, importHealth, order, fetched, held>>

\* The exception leaves the connection's context manager: rollback.
RollBackElt(i) ==
  /\ i \in EltImports /\ importing[i] \in {"fetch", "commit"}
  /\ ImportGoes(i, importing[i], "rejected")
  /\ UNCHANGED <<edition, statistics, importRuns, importHealth, order, fetched, held,
                 left>>

-----------------------------------------------------------------------------

ImportStep(i) ==
  \/ Fetch(i) \/ \E k \in Figures : Upsert(i, k)
  \/ CompleteRun(i) \/ RecordImportSuccess(i)
  \/ ImportFails(i) \/ MarkFailed(i) \/ MarkFailedFails(i) \/ RecordImportFailure(i)
  \/ CommitElt(i) \/ RollBackElt(i)

StartImport(i, o) == CreateRun(i, o) \/ BeginElt(i, o)

ImportNext ==
  Publish \/ \E i \in Imports : ImportStep(i) \/ \E o \in Orders : StartImport(i, o)

\* Every import in progress dies with its process.
ImportsDie ==
  /\ importing' = [i \in Imports |-> IF Running(i) THEN "dead" ELSE importing[i]]
  /\ UNCHANGED <<edition, statistics, importRuns, importHealth, order, fetched, held,
                 left>>

-----------------------------------------------------------------------------
(* Properties.                                                             *)

\* A run marked completed stored every figure its answer held, which may be fewer
\* than it was asked for; a figure that is older now was written by an import that
\* had fetched before it and stored after it.
CompletedImportsStored ==
  \A i \in Imports : importRuns[i] = "completed" =>
    \A k \in held[i] :
      /\ statistics[k] # 0
      /\ statistics[k] < fetched[i] =>
           \E j \in Imports \ {i} :
             fetched[j] = statistics[k] /\ k \in held[j] \ left[j]

\* An import run says started only while its import runs, or for ever after the
\* process died or the catch block could not mark it; the ELT job leaves runs
\* only when it succeeds.
StartedRunsExplained ==
  \A i \in Imports :
    /\ importRuns[i] = "started" =>
         \/ importing[i] \in ImportSteps \cup {"dead"}
         \/ importing[i] = "rejected" /\ <<i, "failed">> \notin importHealth
    /\ i \in EltImports => importRuns[i] \in {"none", "completed"}

\* The status of an import run row says what became of the import.
ImportRunsAgree == CompletedImportsStored /\ StartedRunsExplained

\* The health events of an import agree with its run, and a failed run does not
\* mean that nothing was stored.
ImportHealthAgrees ==
  \A i \in Imports :
    /\ <<i, "success">> \in importHealth => importRuns[i] = "completed"
    /\ <<i, "failed">> \in importHealth =>
         importRuns[i] = "failed" /\ <<i, "success">> \notin importHealth

=============================================================================
