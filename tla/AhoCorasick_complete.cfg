\* Up to two patterns of up to three runes, texts of up to three runes;
\* added pattern occurring in the text.
CONSTANTS
  a = a
  b = b
  MCPatternLen = 3
  MCTextLen = 3
  MaxPatterns = 2
  MaxBuilds = 1
  Sym <- MCSym
  Words <- MCWords
  Texts <- MCTexts
SPECIFICATION Spec
INVARIANTS
  SearchFindsEveryOccurrence
