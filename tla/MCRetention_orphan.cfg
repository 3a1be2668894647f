SPECIFICATION Spec
CHECK_DEADLOCK FALSE
CONSTANTS
  c1 = c1 c2 = c2 c3 = c3 r1 = r1 r2 = r2 d1 = d1 d2 = d2 d3 = d3 k1 = k1 k2 = k2
  north = north south = south
  nora = nora sven = sven adele = adele frida = frida ada = ada
  kristiansand = kristiansand arendal = arendal
  NoDepartment = NoDepartment None = None Never = Never
  Departments = {}
  Tenants = {kristiansand, arendal}
  Cases = {c1}
  BusyCases = {c1}
  Users = {frida}
  RoleOf <- MCRoleOf
  DepartmentOf <- MCDepartmentOf
  TenantOf <- MCTenantOf
  GuestMutable = {}
  Requests <- OneRequest
  Jobs <- RaceJobs
  Seeds <- OneSeed
  StartRows <- LiveAndDeleted
  StartCases <- ClosedUnassigned
  MaxDay = 2
  Cleanups = {k1}
  CleanupUser <- FridaTwice
  ClosedCaseDays = 1
  DeletedDocumentDays = 1
INVARIANTS
  FilesGoBeforeMetadata
