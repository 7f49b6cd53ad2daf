SPECIFICATION MCSpec
CONSTANTS
  Names <- MCNames
  Kinds = {"bridge", "lagg", "epair", "wg", "stf"}
  Base <- MCBase
  Half <- MCHalf
  Zero <- MCZero
  MaxBirths = 3
  Nodes = {"em0", "em1"}
  UnixSockets = {"/tmp/test.sock"}
  RemoteServers = {"far:830"}
INVARIANT FreedOnce
\* The call ends.
CHECK_DEADLOCK FALSE
