SPECIFICATION Spec
CONSTANTS
  Parts = {"licence"}
  Devices = {d1, d2}  Groups = {g1}  Jobs = {j1}  Scripts <- TheScripts
  Lines = {"aaa new-model", "ip http server", "no ip http server"}  CheckKeys = {"aaa_new_model", "http_server_disabled"}
  None = None  d1 = d1  d2 = d2  g1 = g1
  Concurrency = 2  MaxEdits = 1  MaxJobFaults = 1  MaxTroubles = 1  MaxCheckRuns = 1
  Fleet = {1, 2}  Postures = {"bare", "good"}  Contents <- TheContents  Framework <- TheFramework
  Scheduler = Scheduler  Requests = {q1}  Nothing = Nothing
  MaxRequests = 1  MaxAuditTroubles = 1  MaxClock = 3
  Hosts = {1, 2, 3}  Addresses = {{1}, {2}, {3}}  Hostname <- MoreHostnames  Names <- TheNames  Typed = {1}
  Licences = {"large"}  Terms <- MoreTerms  Unlimited = Unlimited  COMMUNITY = 1  Machines <- TheMachines
  Clients = {c1, c2}  Nobody = Nobody  c1 = c1  c2 = c2  MaxStarts = 2  MaxEvents = 3  MaxDay = 0
  Terminals <- TheTerminals  Users = {"ann", "bob"}  Typeable <- TheCommands  Tails = {3, 9}  HOURS = 1  MaxLines = 4  MaxOdd = 1
  Ids = {1, 2}  AdminNames = {"ann", "bob"}  Origins = {"home", "office"}  RoleIds = {"viewer"}  Visitors = {v1, v2}
  Nil = Nil  v1 = v1  v2 = v2  MAX_ATTEMPTS = 2  LOCKOUT = 1  AdminLimit = 2  MaxVisits = 4  MaxTime = 1
  PolicyIds = {1, 2}  Referents = {1, 2}  Labels = {"a", "b"}  PolicyForms <- TheForms  Savers = {s1, s2}  s1 = s1  s2 = s2
  Unset = Unset  MaxSaves = 4  MaxNamings = 2
CHECK_DEADLOCK FALSE
PROPERTIES AddingIsBlocked
