CONSTANTS
  Platform = "win32"
  Senders = {"client"}
  Receivers = {"server"}
  Setters = {}
  Closers = {"client"}
  Sizes = {1}
  Lingers = {}
  Timeouts = {}
  Shutdowns = {"Read", "Write"}
  SndBuf = 1
  RcvBuf = 1
  MaxBytes = 2
  MaxSignals = 0
CHECK_DEADLOCK FALSE
SPECIFICATION Spec
INVARIANTS ClosedIsTheEnd
