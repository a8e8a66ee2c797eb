SPECIFICATION Spec
CONSTANTS
  alice = alice
  bob = bob
  photo = photo
  movie = movie
  quic = quic
  relay = relay
  Resource <- OnePhoto
  Size <- TwoBytes
  Retention = 0
  Sender <- OnlyAlice
  ResourceOf <- AlicesPhoto
  Route <- TwoRoutes
  Relay <- OnlyRelay
  MaxAttempts = 1
  MaxChunk = 2
  Faults = {}
  MaxFaults = 0
INVARIANTS
  RelayIsFallback
