SPECIFICATION Spec
CONSTANTS
  Conn = {c1}
  SERVER = SERVER
  Kinds = {"query", "stop", "exit", "nul", "bad"}
  Ends = {"fin", "reset"}
  MaxMsgs = 2
SYMMETRY ConnSymmetry
INVARIANTS
  Inv
  ReceiveNeverStarves
  JoinIsSafe
  OneQueryInProgress
  AnswersInOrder
PROPERTY ImplementsRequestReply
