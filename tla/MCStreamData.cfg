CONSTANTS
  Platform = "unix"
  Senders = {"client"}
  Receivers = {"server"}
  Setters = {}
  Closers = {"client", "server"}
  Sizes = {0, 1, 2}
  Lingers = {}
  Timeouts = {}
  Shutdowns = {"Write"}
  SndBuf = 1
  RcvBuf = 2
  MaxBytes = 3
  MaxSignals = 1
CHECK_DEADLOCK FALSE
SPECIFICATION Spec
INVARIANTS SendsItsData FillsTheBuffer PeekIsHonest ClosedIsTheEnd
PROPERTY ImplementsPipe
