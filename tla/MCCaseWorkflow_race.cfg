SPECIFICATION Spec
SYMMETRY RequestSymmetry
CONSTANTS
  c1 = c1 c2 = c2 r1 = r1 r2 = r2 r3 = r3
  north = north south = south
  nora = nora sven = sven gus = gus adele = adele frida = frida
  kristiansand = kristiansand arendal = arendal
  plain = plain urgent = urgent
  NoDepartment = NoDepartment System = System UnknownSlug = UnknownSlug
  None = None
  Departments = {north, south}
  Tenants = {kristiansand, arendal}
  Cases = {c1}
  Users = {nora, sven, gus, frida}
  RoleOf <- MCRoleOf
  DepartmentOf <- MCDepartmentOf
  TenantOf <- MCTenantOf
  GuestMutable = {}
  Requests <- ThreeRequests
  Jobs <- RaceJobs
  Classes = {plain, urgent}
  Suggestions <- NorthUrgent
  StartRows <- RaceRows
INVARIANTS
  OfficialFieldsReviewed
  ClosedAtConsistent
  ReviewsRestOnResults
  RecordsAgree
PROPERTIES
  NoSecondReviewFromReviewed
  ImplementsHumanReview
  WritersInScope
