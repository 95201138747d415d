SPECIFICATION Spec
CONSTANTS
  FastRunElf = FastRunElf
  DefLibraryPath = DefLibraryPath
  standard = standard
  other = other
  Field <- MCField
  Text <- MCText
  DefaultText <- MCDefaultText
  Block = {b1, b2, b3, b4, b5, b6}
  Table <- MCTable
  ConstID <- MCConstID
  Null = Null
  BuiltIn = BuiltIn
  Free = Free
SYMMETRY Symmetry
INVARIANTS
  OwnedOnce
  AsAsked
  ConstantsFound
PROPERTIES
  OnlyKnownLosses
