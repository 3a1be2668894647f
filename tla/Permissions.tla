---------------------------- MODULE Permissions ----------------------------
(***************************************************************************)
(* Who may do what to a case.  The role table, the department scoping and  *)
(* the restriction on portfolio guests, as the services evaluate them on   *)
(* the CurrentUser of a session token and a case row they have just read.  *)
(***************************************************************************)

CONSTANTS
  Departments,      \* the department ids
  NoDepartment,     \* null: a user or a case without a department
  Tenants,          \* the municipalities
  Cases,            \* the case ids
  Users,            \* the signed-in staff and guests
  RoleOf,           \* [Users -> Roles]: the role in the session token
  DepartmentOf,     \* [Users -> department or NoDepartment], from the token
  TenantOf,         \* [Users \cup Cases -> Tenants]
  GuestMutable      \* the cases a portfolio guest may modify

\* enum UserRole.
Roles == {"case_worker", "department_admin", "auditor", "super_admin",
          "portfolio_guest"}

MaybeDepartment == Departments \cup {NoDepartment}

ASSUME NoDepartmentAssumption == NoDepartment \notin Departments

ASSUME UsersAssumption ==
  /\ RoleOf \in [Users -> Roles]
  /\ DepartmentOf \in [Users -> MaybeDepartment]
  /\ TenantOf \in [Users \cup Cases -> Tenants]
  /\ GuestMutable \subseteq Cases

CaseWorkerPermissions ==
  {"case:read:department", "case:update:department", "case:close",
   "document:upload", "document:read:department", "ai:triage:run",
   "ai:triage:review"}

DepartmentAdminPermissions ==
  CaseWorkerPermissions \cup
  {"case:read:all_tenant", "document:read:sensitive", "analytics:read",
   "analytics:aggregate", "operations:read", "user:manage",
   "routing_rules:manage"}

AuditorPermissions ==
  {"case:read:all_tenant", "document:read:department",
   "document:read:sensitive", "audit:read", "analytics:read",
   "operations:read"}

\* Every permission of the union type.
SuperAdminPermissions ==
  DepartmentAdminPermissions \cup AuditorPermissions \cup
  {"case:create", "case:read:own", "case:update:all_tenant",
   "document:read:own", "ai:diagnostics:read", "privacy:export",
   "privacy:anonymize", "tenant:manage"}

PortfolioGuestPermissions ==
  {"case:read:all_tenant", "case:update:all_tenant",
   "document:read:department", "ai:triage:run", "ai:triage:review",
   "analytics:read"}

RolePermissions ==
  [case_worker      |-> CaseWorkerPermissions,
   department_admin |-> DepartmentAdminPermissions,
   auditor          |-> AuditorPermissions,
   super_admin      |-> SuperAdminPermissions,
   portfolio_guest  |-> PortfolioGuestPermissions]

RoleHasPermission(role, permission) == permission \in RolePermissions[role]

Has(u, permission) == RoleHasPermission(RoleOf[u], permission)

\* The user works in the department the row is assigned to, or nobody has
\* been assigned it yet.
InDepartmentOf(u, department) ==
  /\ DepartmentOf[u] # NoDepartment
  /\ department \in {DepartmentOf[u], NoDepartment}

CanReadCase(u, department) ==
  \/ Has(u, "case:read:all_tenant")
  \/ Has(u, "case:read:department") /\ InDepartmentOf(u, department)

GuestMayModify(u, c) == RoleOf[u] = "portfolio_guest" => c \in GuestMutable

\* A tenant-wide updater is decided by the guest rule alone: a guest refused
\* there does not fall through to the department rule.
CanUpdateCase(u, department, c) ==
  IF Has(u, "case:update:all_tenant")
  THEN GuestMayModify(u, c)
  ELSE Has(u, "case:update:department") /\ InDepartmentOf(u, department)

=============================================================================
