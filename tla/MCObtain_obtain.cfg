SPECIFICATION FairSpec
CONSTANTS
  Callers = {c1}
  Loners = {l1}
  Names = {n1}
  Servers <- MCServers
  MaxCrashes = 1
  Absent = Absent
  Torn = Torn
INVARIANTS
  AccountMatches
  OneAccount
  ValidatesFresh
PROPERTY
  ObtainReturns
