SPECIFICATION EndpointsSpec
CONSTANTS
  MaxSessions = 4
  MaxRounds = 1
  Address = {a1}
  NoAddress = none
  MaxEvents = 2
  MaxStarts = 2
  Services = {TRUE, FALSE}
  MaxAttempts = 2
  NoSession = nosession
  MaxFails = 1
  TimeOuts = {TRUE, FALSE}
INVARIANTS
  OpenIsRegistered
  NothingUsedLate
  ClientHasCurrentSession
  OneOutcome
PROPERTIES
  ServerCallsReturn
  ServerAccepts
  ConnectingEnds
\* The program may make no more calls.
CHECK_DEADLOCK FALSE
