------------------------------- MODULE MCWeb -------------------------------
(***************************************************************************)
(* Small instances of the pages of the web application: in each behaviour  *)
(* one page is used, with its answers coming in any order.  The case page  *)
(* is met while its case, or its triage result, is still awaited.          *)
(***************************************************************************)
EXTENDS CaseDetailPage, IntakePage, StaffPages, TLC

CONSTANTS roads, water, moss, halden

VARIABLE focus

vars == <<focus, casePageVars, intakePageVars, staffVars>>

\* The first result of a case suggests one department, a rerun another; a run may
\* leave two results.
ThreeResults == <<roads, water, roads>>

Init ==
  /\ focus \in {"case", "intake", "staff"}
  /\ \/ /\ focus = "case"
        /\ \/ CasePageInit({"case"})
           \/ CasePageInit({"triage"}) /\ scope = "department"
     \/ focus # "case" /\ CasePageInit({}) /\ scope = "all"
  /\ record.status = "new"
  /\ IntakePageInit /\ (focus # "intake" => tenant = moss)
  /\ StaffPagesInit /\ (focus # "staff" => pageKind = "audit")

Next ==
  \/ /\ focus = "case" /\ CasePageNext
     /\ UNCHANGED <<focus, intakePageVars, staffVars>>
  \/ /\ focus = "intake" /\ IntakePageNext
     /\ UNCHANGED <<focus, casePageVars, staffVars>>
  \/ /\ focus = "staff" /\ StaffPagesNext
     /\ UNCHANGED <<focus, casePageVars, intakePageVars>>

Spec == Init /\ [][Next]_vars

TypeOK ==
  /\ focus \in {"case", "intake", "staff"}
  /\ CasePageTypeOK /\ IntakePageTypeOK /\ StaffPagesTypeOK

\* Whatever is awaited, every page is in a state its code knows, and its buttons
\* are disabled exactly as long as what they started has not ended.
PagesWellFormed == TypeOK /\ ButtonsWaitForAnswers /\ OneChangeAtATime

=============================================================================
