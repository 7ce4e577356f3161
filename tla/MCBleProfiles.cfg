SPECIFICATION Spec
CONSTANTS
  Host = {h1, h2}
  Open = Open
  ProfileCount = 2
  User = {main, via}
  Main = main
INVARIANTS TypeOK SavedAtRest AdvertisesAtRest NoOrphanBond
PROPERTY SlotKept
SYMMETRY Swap
