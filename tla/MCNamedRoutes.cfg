SPECIFICATION Spec
CONSTANTS
  alice = alice
  bob = bob
  photo = photo
  movie = movie
  quic = quic
  relay = relay
  Resource <- OnePhoto
  Size <- TwoBytes
  Retention = 0
  Sender <- OnlyAlice
  ResourceOf <- AlicesPhoto
  Route <- TwoRoutes
  Relay <- OnlyRelay
  MaxAttempts = 2
  MaxChunk = 2
  Faults = {"break", "late", "unpack", "nothing", "other", "quit"}
  MaxFaults = 1
INVARIANTS
  FailuresHaveCauses
PROPERTIES
  SendersFinish
