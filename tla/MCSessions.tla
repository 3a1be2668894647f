----------------------------- MODULE MCSessions -----------------------------
(***************************************************************************)
(* One browser with two tabs, a worker whose account changes while signed  *)
(* in, and the guest of the portfolio demo.                                *)
(***************************************************************************)
EXTENDS InternalTabs, TLC

CONSTANTS kari, guest, t1, t2

Account(role, active) == [role |-> role, active |-> active]

\* A case worker becomes an administrator, leaves, and comes back.
Careers ==
  kari :> <<Account("case_worker", TRUE), Account("department_admin", TRUE),
            Account("department_admin", FALSE), Account("department_admin", TRUE)>> @@
  guest :> <<Account("portfolio_guest", TRUE)>>

\* The roles with analytics:read.
Readers == {"department_admin", "super_admin", "auditor", "portfolio_guest"}

\* A request settles: the API answers or the network gives up, and the browser
\* gets to the answer.
FairSpec ==
  /\ Spec
  /\ \A t \in Tabs, kind \in {"login", "demo", "logout", "me", "load"} :
       /\ WF_vars(\E r \in wire : r.tab = t /\ r.kind = kind /\ Handle(r) /\ UNCHANGED tabVars)
       /\ WF_vars(\E r \in wire : r.tab = t /\ r.kind = kind /\ Receive(r))

=============================================================================
