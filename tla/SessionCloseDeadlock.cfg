SPECIFICATION FairSpec
CONSTANTS
  Io = io
  Opener = io
  Nobody = nobody
  Worker = {w1}
  Writer = {a1}
  Closer = {c1}
  Incoming = 1
  MaxRead = 0
  MaxWrite = 0
  OrderlyRead = TRUE
  OrderlyWrite = FALSE
  ReadKinds = {"orderly"}
  HandlerCalls = {"none"}
  CloseCalls = {"close"}
  Failures = FALSE
PROPERTY CloseEnds
\* The session stops when the peer and the application are done with it.
CHECK_DEADLOCK FALSE
