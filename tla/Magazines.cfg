\* An issue of every kind, one fault anywhere.
CONSTANTS
  i1 = i1  i2 = i2  None = None
  Index <- MCIndex
  Owners <- MCOwners
  Offer <- MCOffer
  Year <- MCYear
  SampleSize = 1
  MaxFaults = 1
SPECIFICATION FairSpec
INVARIANTS ArchiveSound
PROPERTIES RecoverySweepsTheRest ReportsTrue MetadataStays Catalogued
CHECK_DEADLOCK FALSE
