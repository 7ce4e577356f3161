SPECIFICATION MenusSpec
CONSTANTS
  Size = 4
  ViaMagic = 3
  Value <- MCValue
  Blank = 255
  Default = 0
  None = None
  LastToggle = 0
  ToggleBits = {0}
  Menus <- MCMenus
INVARIANTS MenuTypeOK KeepsSaved OnlyChosen InRange
PROPERTY RequestedReset
