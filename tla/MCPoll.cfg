CONSTANTS
  Platforms = {"unix", "win32"}
  Timeouts = {0, 2}
  MaxElapsed = 7
  MaxSignals = 2
SPECIFICATION FairSpec
PROPERTIES SaysTheTruth NothingMissed TimeoutIsDue PollReturns
