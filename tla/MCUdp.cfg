CONSTANTS
  Platforms = {"linux", "bsd", "win32"}
  V4Peers = {a4}
  V6Peers = {b6, l6}
  LinkLocal = {l6}
  Senders = {"any", "V4"}
  Sizes = {1, 2}
  Lens = {0, 2}
  QueueCap = 2
  MaxArrivals = 3
SPECIFICATION Spec
INVARIANTS PeekIsHonest SentWhereItSays BothFamilies AnswerArrives
PROPERTY TakenIsGiven
