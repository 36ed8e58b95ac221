SPECIFICATION FairSpec
CONSTANTS
  a = a
  b = b
  e1 = e1
  Service = {a, b}
  Temp = {e1}
  Defined <- MCDefined
  Updatable = {a}
  Reboots = {b}
  Timed = {b}
  Late = {b}
  OnRestart <- MCOnRestart
  Requests <- MCRequests
  CrashLimit = 0
INVARIANTS StopWins Revives  ExecHasProcess
PROPERTIES KillIsFinal ShutdownEnds
CHECK_DEADLOCK FALSE
