SPECIFICATION FairSpec
CONSTANTS
  c1 = c1 c2 = c2 r1 = r1 r2 = r2 r3 = r3
  north = north south = south
  nora = nora sven = sven gus = gus adele = adele frida = frida
  kristiansand = kristiansand arendal = arendal
  plain = plain urgent = urgent
  NoDepartment = NoDepartment System = System UnknownSlug = UnknownSlug
  None = None
  Departments = {north, south}
  Tenants = {kristiansand, arendal}
  Cases = {c1}
  Users = {nora, sven, gus, adele, frida}
  RoleOf <- MCRoleOf
  DepartmentOf <- MCDepartmentOf
  TenantOf <- MCTenantOf
  GuestMutable = {c1}
  Requests <- TwoRequests
  Jobs <- AccessJobs
  Classes = {plain, urgent}
  Suggestions <- NorthUrgent
  StartRows <- EveryRow
INVARIANTS
  TypeOK
PROPERTIES
  StatusFollowsTable
  RunsLeaveResult
