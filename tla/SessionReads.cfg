SPECIFICATION Spec
CONSTANTS
  Io = io
  Opener = io
  Nobody = nobody
  Worker = {w1, w2}
  Writer = {}
  Closer = {c1}
  Incoming = 3
  MaxRead = 2
  MaxWrite = 0
  OrderlyRead = TRUE
  OrderlyWrite = FALSE
  ReadKinds = {"sync", "concurrent", "orderly"}
  HandlerCalls = {"none", "closenow"}
  CloseCalls = {"close", "closenow"}
  Failures = FALSE
SYMMETRY ThreadSymmetry
INVARIANTS
  SequentialWhileOpen
  HandledInOrder
  NoReadForgotten
\* The session stops when the peer and the application are done with it.
CHECK_DEADLOCK FALSE
