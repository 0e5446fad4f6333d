CONSTANTS
  Platform = "unix"
  Senders = {"client"}
  Receivers = {"client"}
  Setters = {"client"}
  Closers = {"client"}
  Sizes = {1,3}
  Lingers = {0, 2000}
  Timeouts = {0, 1000}
  Shutdowns = {"Write", "Both", "Read"}
  SndBuf = 1
  RcvBuf = 1
  MaxBytes = 3
  MaxSignals = 1
CHECK_DEADLOCK FALSE
SPECIFICATION FairSpec
PROPERTY CallsReturn
