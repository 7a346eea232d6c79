CONSTANTS
  Listings <- MCListings
  Uploads <- MCUploads
  FilterLines <- MCFilterLines
  Options <- MCOptions
  IdLists <- MCIdLists
  PathMax = 6
  TimeLimit = 3
  Faults = {"readlink"}
SPECIFICATION Spec
INVARIANT LinksAreWhole
