CONSTANTS
  Platforms = {"unix", "win32"}
  Timeouts = {0, 1, 3}
  ConnErrnos = {"ECONNREFUSED", "ENETUNREACH"}
  CallErrnos = {"ENOMEM"}
  RetryErrnos = {"EALREADY"}
SPECIFICATION FairSpec
INVARIANTS OkMeansConnected ModeAsRequested WaitsNoLongerThanAsked ErrNamesCause SignalsShowOnlyAsInProgress
PROPERTY TimedConnectReturns
