SPECIFICATION Spec
CONSTANTS
  k1 = k1
  k2 = k2
  k3 = k3
  kc_a = kc_a
  kc_b = kc_b
  shift = shift
  Key = {k1, k2, k3}
  Layer = {0, 1}
  Code = {kc_a, kc_b}
  Mod = {shift}
  NoCode = NoCode
  TappingToggle = 2
  MaxCount = 3
  KeyMaps <- OnlyTwoTaps
  HoldSettings = {TRUE}
  None = None
  Term = 2
  Wrap = 4
  BufferSize = 5
PROPERTY SameAction
