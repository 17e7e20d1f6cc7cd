SPECIFICATION Spec
SYMMETRY Symmetry
CONSTANTS
  q1 = q1
  q2 = q2
  q3 = q3
  u1 = u1
  tA = tA
  tB = tB
  rA = rA
  rB = rB
  None = None
  Requests = {q1, q2, q3}
  Users = {u1}
  Tasks = {tA, tB}
  Repositories = {rA, rB}
  TaskOf <- const_TaskOf
  RepositoryOf <- const_RepositoryOf
  MaxParallel = 1
  MaxAttempts = 2
  MaxRestarts = 1
INVARIANTS
  MutualExclusion
  NothingLeaks
PROPERTIES
  RefinesExclusiveAccess
