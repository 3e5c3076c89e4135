SPECIFICATION ProgramsSpec
CONSTANTS
  ClientCount = 2
  Counts <- RoundCounts
  Batch = 1
  MaxRounds = 2
  MaxDrops = 1
  ChatSessions = 2
  Names = {"ann", "bob"}
  MaxCommands = 3
  Provider = {"p1", "p2", "p3", "p4"}
  Code <- ProviderCode
  Name <- ProviderName
  Services <- ProviderServices
  Worker = {"w1", "w2"}
  MaxRequests = 2
  LogName = {"esn", "net"}
  DefaultName = "esn"
  LogThread = {"t1", "t2"}
  MaxLoggers = 4
  MaxLevel = 5
  Message <- JsonMessages
  HandlingSession = {"s1", "s2"}
  PoolWorker = {"v1", "v2"}
  IntKey = {"1"}
  StrKey = {"k"}
  OrderlyHandling <- SomeLanes
  MaxMessages = 2
  Sample = {"ClayServer", "ClayClient", "ChatServer", "ChatClient", "JsonServer", "C10kServer",
            "JsonClient", "JsonClients", "C10kClients"}
  LifeSession = {"a1", "a2"}
INVARIANTS
  RepliesMatch
  OneConversation
  NoDangling
  FatalIsWritten
  ReadRight
  UpdatesKept
  NobodyWaitsInVain
  EverythingEnds
  NothingUsedAfterItsEnd
PROPERTIES
  AllConnect
\* The programs may have done all that the bounds allow.
CHECK_DEADLOCK FALSE
