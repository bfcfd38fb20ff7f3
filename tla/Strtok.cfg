SPECIFICATION StrtokSpec
CONSTANTS
  Alphabet = {10, 32, 49, 98}
  MaxLine = 4
  Delims <- MCDelims
  INT_MAX = 127
INVARIANTS
  CopyFits
  LibraryAgrees
PROPERTIES
  ImplementsTokenizer
