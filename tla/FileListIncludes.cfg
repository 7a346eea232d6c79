CONSTANTS
  Listings <- MCListings
  Uploads <- MCUploads
  FilterLines <- MCIncludes
  Options <- MCOptions
  IdLists <- MCIdLists
  PathMax = 6
  TimeLimit = 3
  Faults = {}
SPECIFICATION Spec
PROPERTY IncludedIsKept
