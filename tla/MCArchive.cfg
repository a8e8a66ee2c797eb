SPECIFICATION Spec
CONSTANTS
  Path <- MCPath
  Refused <- MCRefused
  InputChoices <- MCInputs
  Content <- MCContent
  Requested = {"auto"}
  AutoLimit = 8
  MaxCopy = 4
  MaxSends = 2
  MaxEdits = 2
  MaxFaults = 1
INVARIANTS
  DoneMeansAll
  FailureHasCause
  SameFilesSameArchive
PROPERTIES
  OnlyVerifiedFiles
  ExistingKept
