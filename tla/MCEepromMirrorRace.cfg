SPECIFICATION Spec
CONSTANTS
  Size = 3
  ViaMagic = 1
  Value <- MCValue
  Blank = "blank"
  Default = "default"
INVARIANT NoLostEdit
