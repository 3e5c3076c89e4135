SPECIFICATION FairSpec
CONSTANTS
  Io = io
  Opener = io
  Nobody = nobody
  Worker = {w1}
  Writer = {a1}
  Closer = {}
  Incoming = 2
  MaxRead = 0
  MaxWrite = 0
  OrderlyRead = TRUE
  OrderlyWrite = TRUE
  ReadKinds = {"sync", "orderly"}
  HandlerCalls = {"none", "write"}
  CloseCalls = {}
  Failures = FALSE
PROPERTIES
  EveryWriteEnds
  EveryReadHandled
\* The session stops when the peer and the application are done with it.
CHECK_DEADLOCK FALSE
