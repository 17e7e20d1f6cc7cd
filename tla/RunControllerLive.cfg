SPECIFICATION MCSpec
CONSTANTS
  q1 = q1
  q2 = q2
  q3 = q3
  u1 = u1
  tA = tA
  tB = tB
  tC = tC
  rA = rA
  rB = rB
  Nobody = Nobody
PROPERTIES
  EveryRunEnds
CHECK_DEADLOCK FALSE
