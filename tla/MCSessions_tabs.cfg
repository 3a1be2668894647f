SPECIFICATION FairSpec
CONSTANTS
  kari = kari
  guest = guest
  t1 = t1
  t2 = t2
  Users = {kari, guest}
  History <- Careers
  PageRoles <- Readers
  DemoGuests = {guest}
  DemoEnabled = TRUE
  MaxTokens = 2
  Tabs = {t1, t2}
  MaxClicks = 1
  Staff = {kari}
  Unreliable = {"logout", "me", "load", "login", "demo"}
CHECK_DEADLOCK FALSE
INVARIANTS
  PagesFitSession
PROPERTIES
  LiveSessionsKept
  SessionsLoad
