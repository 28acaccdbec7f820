SPECIFICATION ScanSpec
CONSTANTS
  Unset = Unset
  DefLocalPref = 1
  LocalPrefs <- MCOne
  Lengths <- MCTwo
  Meds <- MCTwo
  OwnAS <- MCOwnAS
  MaxPaths = 3
INVARIANTS
  ComparisonsAreOrders
