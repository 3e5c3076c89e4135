SPECIFICATION Spec
CONSTANTS
  Io = io
  Opener = listener
  Nobody = nobody
  Worker = {w1}
  Writer = {a1, a2}
  Closer = {c1}
  Incoming = 0
  MaxRead = 0
  MaxWrite = 2
  OrderlyRead = TRUE
  OrderlyWrite = TRUE
  ReadKinds = {"orderly"}
  HandlerCalls = {"none", "write"}
  CloseCalls = {"close", "closenow"}
  Failures = TRUE
SYMMETRY ThreadSymmetry
INVARIANTS
  NoWriteForgotten
  OneWriteAtATime
  WritesKeepOrder
  DisconnectIsFinal
\* The session stops when the peer and the application are done with it.
CHECK_DEADLOCK FALSE
