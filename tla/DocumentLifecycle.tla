------------------------- MODULE DocumentLifecycle -------------------------
(***************************************************************************)
(* What becomes of a case document, whatever requests and cleanups are     *)
(* about: its file is written before its row and never again, a deletion   *)
(* is not taken back, and nothing is removed for good but by a cleanup,    *)
(* the file first.  RetentionCleanup implements this.                      *)
(*                                                                         *)
(* The rows of a case go all at once, with the case; only so can a file    *)
(* outlive its row.                                                        *)
(***************************************************************************)
CONSTANTS
  Cases,
  Docs,
  Nowhere     \* the case of a document without a row

VARIABLES
  present,    \* the cases in the table
  claimed,    \* the cases that cleanups have taken upon themselves
  home,       \* [Docs -> Cases or Nowhere]
  state,      \* [Docs -> States]: the document's row
  file        \* [Docs -> Files]: its file on disk

vars == <<present, claimed, home, state, file>>

States == {"none", "live", "deleted", "gone"}
Files  == {"none", "there", "gone"}

Filed(d) == state[d] \in {"live", "deleted"}

Init ==
  /\ present = Cases /\ claimed = {}
  /\ home \in [Docs -> Cases \cup {Nowhere}]
  /\ state \in [Docs -> {"none", "live", "deleted"}]
  /\ file = [d \in Docs |-> IF state[d] = "none" THEN "none" ELSE "there"]
  /\ \A d \in Docs : home[d] = Nowhere <=> state[d] = "none"

\* Files are stored before their rows; a crash may leave several.
WriteFiles(S) ==
  /\ \A d \in S : file[d] = "none" /\ state[d] = "none"
  /\ file' = [d \in Docs |-> IF d \in S THEN "there" ELSE file[d]]
  /\ UNCHANGED <<present, claimed, home, state>>

\* The row of a file, in a case that is there.
CreateRow(d, c) ==
  /\ state[d] = "none" /\ file[d] = "there" /\ c \in present
  /\ state' = [state EXCEPT ![d] = "live"]
  /\ home' = [home EXCEPT ![d] = c]
  /\ UNCHANGED <<present, claimed, file>>

SoftDelete(d) ==
  /\ state[d] = "live"
  /\ state' = [state EXCEPT ![d] = "deleted"]
  /\ UNCHANGED <<present, claimed, home, file>>

\* A cleanup takes expired cases upon itself.
Claim(S) ==
  /\ S \subseteq present
  /\ claimed' = claimed \cup S
  /\ UNCHANGED <<present, home, state, file>>

\* The file of a document in use goes only with its case.
RemoveFile(d) ==
  /\ file[d] = "there"
  /\ home[d] \in claimed \/ state[d] \in {"deleted", "gone"}
  /\ file' = [file EXCEPT ![d] = "gone"]
  /\ UNCHANGED <<present, claimed, home, state>>

\* The sweep of single documents.
RemoveRow(d) ==
  /\ state[d] = "deleted" /\ file[d] = "gone"
  /\ state' = [state EXCEPT ![d] = "gone"]
  /\ UNCHANGED <<present, claimed, home, file>>

\* ON DELETE CASCADE
RemoveCase(c) ==
  /\ c \in present \cap claimed
  /\ present' = present \ {c}
  /\ state' = [d \in Docs |-> IF Filed(d) /\ home[d] = c THEN "gone" ELSE state[d]]
  /\ UNCHANGED <<claimed, home, file>>

Next ==
  \/ \E S \in SUBSET Docs : WriteFiles(S)
  \/ \E d \in Docs :
       \/ SoftDelete(d) \/ RemoveFile(d) \/ RemoveRow(d)
       \/ \E c \in Cases : CreateRow(d, c)
  \/ \E S \in SUBSET Cases : Claim(S)
  \/ \E c \in Cases : RemoveCase(c)

Spec == Init /\ [][Next]_vars

-----------------------------------------------------------------------------

\* What follows for the files nobody will ever delete: a file whose row is gone
\* belonged to a case that is gone as well, and a row is never without its case.
OrphansLostTheirCase ==
  \A d \in Docs :
    /\ state[d] = "gone" /\ file[d] = "there" => home[d] \in Cases \ present
    /\ Filed(d) => home[d] \in present

=============================================================================
