SPECIFICATION FairSpec
CONSTANTS
  Conn = {c1}
  SERVER = SERVER
  Kinds = {"query", "stop", "nul", "bad"}
  Ends = {"fin", "reset"}
  MaxMsgs = 2
PROPERTIES
  RuntimeKeepsPolling
  QueriesAreAnswered
  ShutdownTerminates
  ClosedIsRemoved
