SPECIFICATION ServicesSpec
CONSTANTS
  PoolSize = 2
  Owner = {"o1", "o2"}
  MaxSessions = 3
  MaxEvents = 2
  MaxRestarts = 2
  MaxEnables = 1
  MaxWrites = 2
  MaxReads = 1
  ByteBase = 8
  MaxBufferSize = 7
  Junk = junk
  MessageCodecs <- SomeMessageCodecs
  StringCodecs <- SomeStringCodecs
  BodySizes = {0, 1, 4}
  Strings <- SomeStrings
  ReadBufferSize = 3
  SessionsInTurn = 2
  MaxMessages = 2
  MaxFailures = 1
INVARIANTS
  StreamUsedAlone
  QueueMoves
  MessagesIntact
  NothingHeldBack
PROPERTIES
  PoolEnds
  HandshakeResolved
\* The sessions and the pool may have done all that the bounds allow.
CHECK_DEADLOCK FALSE
