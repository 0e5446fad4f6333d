CONSTANTS
  Platforms = {"win32"}
  Timeouts = {0, 1, 3}
  ConnErrnos = {"ECONNREFUSED", "ENETUNREACH"}
  CallErrnos = {"ENOMEM"}
  RetryErrnos = {"EALREADY"}
SPECIFICATION Spec
INVARIANT EveryOkMeansConnected
