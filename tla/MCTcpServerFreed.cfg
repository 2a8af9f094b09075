SPECIFICATION Spec
CONSTANTS
  Conn = {c1}
  SERVER = SERVER
  Kinds = {"query", "stop", "exit", "nul", "bad"}
  Ends = {"fin", "reset"}
  MaxMsgs = 2
INVARIANT ServerOutlivesWorkers
