CONSTANTS
  Listings <- MCListings
  Uploads <- MCUploads
  FilterLines <- MCFilterLines
  Options <- MCOptions
  IdLists <- MCIdLists
  PathMax = 6
  TimeLimit = 3
  Faults = {"list", "readlink", "checksum", "cut"}
SPECIFICATION Spec
INVARIANTS
  TypeOK
  BreaksForCause
  ListDecoded
  IndexAgrees
  NothingLeft
