CONSTANTS
  a = a
  b = b
  listed = listed
  unlisted = unlisted
  None = None
  Names <- TwoNames
  ImageNames <- TwoNames
  Categories <- TwoCategories
  Order <- UnlistedLast
  Catalogs <- OneCatalog
  FirstImages <- TwoImages
  ListFiles <- OldListOrNone
  MaxEvents = 6
SPECIFICATION Spec
INVARIANTS
  TypeOK
  TreeCatchesUp
  OwnerKnowsSelection
CHECK_DEADLOCK FALSE
