SPECIFICATION Spec
CONSTANTS
  k1 = k1
  k2 = k2
  r1 = r1
  r2 = r2
  q1 = q1
  q2 = q2
  x1 = x1
  s1 = s1
  s2 = s2
  s3 = s3
  w1 = w1
  w2 = w2
  Temporary = Temporary
  Random = Random
  Nobody = Nobody
  Keys <- OneKey
  Resets <- OneReset
  Requests <- OneRequest
  ResetRuns <- OneRun
  Sessions <- TwoSessions
  Own <- TwoPasswords
  MaxStray = 1
PROPERTY NeverFalselyCompleted
CHECK_DEADLOCK FALSE
