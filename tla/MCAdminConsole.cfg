SPECIFICATION Spec
CONSTANTS
  a = a
  b = b
  c = c
  d = d
  Users = {a, b, c, d}
  IPs <- NoIPs
  Secrets = {p}
  Null = Null
  Window = 1
  Tabs = {t1, t2}
  Day = 2
  PageSize = 2
  MaxPage = 2
  DefaultPage = 1
  InitialListing <- MCListing
  InitialExpiries = {0, 1}
  Clicks <- MCClicks
  Filters = {"any", "enabled"}
  MaxWait = 1
  MaxTime = 1
  MaxClicks = 3
INVARIANTS TypeOK ExtensionsKept ExportNearlyComplete NoSilentGap
SYMMETRY TabSymmetry
CHECK_DEADLOCK FALSE
