SPECIFICATION MCSpec
CONSTANTS
  Names <- MCNames
  Kinds = {"bridge", "lagg", "epair", "wg", "stf"}
  Base <- MCBase
  Half <- MCHalf
  Zero <- MCZero
  MaxBirths = 3
  Nodes = {"em0", "em1"}
  UnixSockets = {"/tmp/test.sock"}
  RemoteServers = {"far:830"}
INVARIANTS
  ClientTypeOK
  TableFits
  HigherResists
  AllSelectedShown
  ShownIsRead
  OffersFitTheType
  NothingLeaks
  NamedServerAnswers
\* A command ends; a line and a table are finished.
CHECK_DEADLOCK FALSE
