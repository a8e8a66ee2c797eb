SPECIFICATION Spec
CONSTANTS
  alice = alice
  bob = bob
  file = file
  other = other
  Resource <- TwoFiles
  Size <- Sizes
  Retention = 0
  Sender <- TwoSenders
  Ours <- OurTerms
  TermsChoices <- AliceAndAnother
  ResourceOf <- SameFile
  MaxAttempts = 2
  Faults = {"late", "cut", "stall", "lost", "copied", "swapped", "damaged", "control", "text", "altered", "exit"}
  MaxFaults = 1
INVARIANTS
  PartIsArchive
  OnlyAgreedPeers
PROPERTIES
  ImplementsDelivery
  SendEndsUnlessStalled
