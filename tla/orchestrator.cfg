SPECIFICATION FairSpec
CONSTANTS
  Objects <- Three
  Needs <- TableNeeded
  OwnerOf <- TableOwning
  Concurrent <- Index
  DesiredSchema <- Wanted
  Databases <- EveryDatabase
  Arguments <- CommandLines
  MaxChanges = 2
  MaxFaults = 2
PROPERTIES WritesOnlyWhatIsAsked UnseenGoesOnlyWithItsTable Converges
