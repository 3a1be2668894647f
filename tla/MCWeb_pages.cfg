SPECIFICATION Spec
\* Every page comes to rest when nothing is awaited and the user stops.
CHECK_DEADLOCK FALSE
CONSTANTS
  roads = roads
  water = water
  moss = moss
  halden = halden
  Statuses = {"new", "triaged"}
  Departments = {roads, water}
  OwnDepartment = roads
  Suggested <- ThreeResults
  MaxClicks = 2
  MaxOthers = 1
  Tenants = {moss, halden}
  NoTenant = "none"
  Typed = "typed"
  MaxIntakeClicks = 6
  Filters = {"all", "new", "closed"}
  Everything = "all"
  MaxStaffClicks = 3
INVARIANTS
  PagesWellFormed
  FormsFollowWhatIsShown
  OwnChangesShown
  MunicipalitiesAgree
  AnswersShown
  ListsShowWhatWasAsked
