SPECIFICATION Spec
CONSTANTS
  p1 = p1 p2 = p2 p3 = p3 u1 = u1 u2 = u2 g1 = g1 g2 = g2 d1 = d1 d2 = d2 dg = dg
  a1 = a1 a2 = a2 set = set login = login show = show conf = conf None = None
  Policies = {p1, p2, p3}
  Users = {u1, u2}
  Groups = {g1, g2}
  Devices = {d1, d2}
  DeviceGroups = {dg}
  Addresses = {a1, a2}
  CommandSets = {set}
  Commands = {login, show, conf}
  Login = login
  Rules <- RulesOne
  Threads = {t1, t2}
  Saves <- SavesFour
  Saveable <- SaveableSix
  UsersAtFirst <- UsersOne
  DevicesAtFirst <- DevicesOne
  PoliciesAtFirst <- PoliciesTwo
  PrioritiesAtFirst <- PrioritiesTwo
  MaxPriority = 2
  MaxEdits = 3
SYMMETRY Symmetry
CHECK_DEADLOCK FALSE
INVARIANT DanglingNeverMatches
