\* Up to two patterns of up to three runes (duplicates and the empty
\* pattern included), texts of up to four runes, one buildFailureLinks
\* call: the documented add / build / search order.
CONSTANTS
  a = a
  b = b
  MCPatternLen = 3
  MCTextLen = 4
  MaxPatterns = 2
  MaxBuilds = 1
  Sym <- MCSym
  Words <- MCWords
  Texts <- MCTexts
SYMMETRY RuneSymmetry
SPECIFICATION Spec
INVARIANTS
  TypeOK
  TrieIsPrefixTree
  FailureLinksLongestSuffix
  OutputClosure
  SearchTracksLongestSuffix
PROPERTIES
  SearchReportsOnlyEndingHere
