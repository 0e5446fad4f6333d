CONSTANTS
  Platform = "win32"
  Fds = {fd3, fd4, fd5}
  Threads = {t1, t2}
  Listeners = {lst}
  Streams = {s1}
  Udps = {u1, u2}
  App = app
  InvalidSockFd = InvalidSockFd
  None = None
  CallErrnos = {"EADDRINUSE"}
  CloseErrnos = {"EINTR"}
  StartupOutcomes = {"ok", "failed"}
SYMMETRY Symm
SPECIFICATION Spec
INVARIANTS TypeOK SingleHolder HeldIsOpen NoLeak ReportsCause StartupFirst FamilyFlag
PROPERTY ImplementsOwnership
