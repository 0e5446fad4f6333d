CONSTANTS
  t1 = t1
  t2 = t2
  Systems = {"glibc"}
  Threads = {t1, t2}
  Callers <- MCCallers
  Reqs = {r1, r2}
  Timeouts = {0, 2}
  Lists <- MCLists
  GaiErrors = {"EAI_NONAME", "EAI_FAIL"}
  MaxLate = 1
  MaxSignals = 0
SPECIFICATION Spec
INVARIANT EveryPrefersV4
