SPECIFICATION Spec
CONSTANTS
  p1 = p1
  p2 = p2
  s1 = s1
  s2 = s2
  r1 = r1
  r2 = r2
  r3 = r3
  r4 = r4
  w1 = w1
  w2 = w2
  Proc = {p1, p2}
  Config <- SomeConfigs
  Session = {s1, s2}
  Clients <- SomeClients
  Runs = {r1, r2, r3, r4}
  Tasks <- SomeTasks
  NumberOfUsers = 1
  Logins <- SomeLogins
  MaxIterations = 2
  Writer = {w1, w2}
  Logs <- SomeLogs
  MaxLines = 2
  MaxHour = 1
INVARIANTS InstancesApart SessionSound LoginSound
PROPERTIES  LogKept 
CHECK_DEADLOCK FALSE
