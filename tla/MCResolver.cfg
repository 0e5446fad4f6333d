CONSTANTS
  t1 = t1
  t2 = t2
  Systems = {"glibc", "win32", "other"}
  Threads = {t1, t2}
  Callers <- MCCallers
  Reqs = {r1, r2}
  Timeouts = {0, 2}
  Lists <- MCLists
  GaiErrors = {"EAI_AGAIN"}
  MaxLate = 1
  MaxSignals = 1
SPECIFICATION FairSpec
INVARIANTS PrefersV4 FoundIsReported NoListLeak RightAddress
PROPERTY ResolveReturns
