CONSTANTS
  NumGlyphs = 2
  Selectors = {65024, 65039}
  RangeStarts = {65, 1114111}
  Additionals = {0, 1}
  UnicodeValues = {65, 1114112}
  GlyphIds = {1, 2}
  MaxRecords = 2
  MaxEntries = 2

SPECIFICATION Spec

PROPERTIES
  Format14Refinement
  Format14Terminates

INVARIANTS
  TypeOK
