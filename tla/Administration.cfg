SPECIFICATION MCSpec
SYMMETRY Symmetry
CONSTANTS
  h1 = h1  g1 = g1  r1 = r1  c1 = c1  t1 = t1  t2 = t2  p1 = p1  o1 = o1  w1 = w1  w2 = w2
  s1 = s1  s2 = s2  form3 = form3  v1 = v1
  Tasks = {t1}
  Plans = {}
  Occurrences = {}
  Works = {w1, w2}
  Forms = {form1, form2, form3}
  Scoped = {form1, form2}
  Verifiable = {form1, form2}
  MaxCalls = 2
  Hosts = {h1}
  Agents = {g1}
  Repos = {r1}
  Conns = {}
  TaskIds = {t1}
  Secrets = {s1, s2, s3}
  RepositoryForms <- MCRepositoryForms
  TaskForms <- MCTaskForms
  MaxTroubles = 1
  Machines = {m1, m2}
  Serials = {s1, s2, s3}
  Tokens = {k1, k2}
  Versions = {v1, v2, v3}
  Broken = {v2}
  MaxOps = 2
  Ports = {q1, q2}
  MaxSettings = 3
  MaxFailures = 2
INVARIANTS
  ReferencesHold
  WorkIsRooted
  TasksFit
  AccessHolds
  EndpointAsStored
PROPERTIES
  BackupsStayPut
  UpgradeRestores
CHECK_DEADLOCK FALSE
