SPECIFICATION Spec
CONSTANTS
  Session = {s1, s2}
  Worker = {w1}
  Buffer = {b1, b2, b3, b4}
  NoBuffer = none
  ItemCount = 1
  Own = {"readbuffer"}
  MaxRead = 1
  MaxMessages = 2
  MaxShared = 1
  Filters = {TRUE, FALSE}
  Calls = {"answer", "broadcastdata", "broadcastbuffer", "echo", "keep"}
SYMMETRY AllSymmetry
INVARIANTS
  OneHolder
  ContentIntact
PROPERTY
  BuffersComeBack
\* The run ends when every session is gone and every message was read.
CHECK_DEADLOCK FALSE
