SPECIFICATION FairSpec
\* Submissions, errands, calls, lookups, imports and resets are few, and end.
CHECK_DEADLOCK FALSE
CONSTANTS
  r1 = r1
  r2 = r2
  officer = officer
  hole = hole
  kari = kari
  openai = openai
  mock = mock
  search = search
  typeahead = typeahead
  api1 = api1
  elt = elt
  oslo = oslo
  bergen = bergen
  night = night
  morning = morning
  lamp = lamp
  photo = photo
  seed1 = seed1
  monday = monday
  None = None
  Requests = {r1, r2}
  Matters = {hole}
  Contents <- FullAndPlain
  MaxFiles = 2
  Citizens = {kari}
  CitizenOf <- AllKari
  Officers = {officer}
  Errands <- AnyErrand
  Calls = {openai, mock}
  MockCalls = {mock}
  MaxAttempts = 2
  MockInputs <- Inputs
  DefaultSlug = "technical_department"
  Lookups = {search, typeahead}
  EmployeeLookups = {search}
  Imports = {api1, elt}
  EltImports = {elt}
  Orders <- BothOrNone
  Municipalities = {oslo, bergen}
  Years = {1, 2}
  MaxEdition = 2
  ResetRuns = {night, morning}
  VisitorCases = {lamp}
  Uploads = {photo}
  CaseOf <- Attached
  SeedCases = {seed1}
  SeedDays = {monday}
INVARIANTS
  ConfirmedIsComplete
  StrayCasesExplained
  UploadedFilesExplained
  AnonymisationAccounted
  ProvidersAgree
  HealthEventsAgree
  ImportRunsAgree
  ResetExplained
PROPERTIES
  RequestsEnd
