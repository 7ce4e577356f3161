SPECIFICATION FairSpec
CONSTANTS
  Size = 4
  ViaMagic = 2
  Value <- MCValue
  Blank = "blank"
  Default = "default"
INVARIANT TypeOK
INVARIANT OneContextInv
PROPERTIES StoreSpec EventuallySaved
