CONSTANTS
  NumGlyphs = 2
  MaxCode = 3
  MaxSegments = 2
  Deltas <- MCDeltas
  RangeOffsets = {0, 2, 4, 7}
  GlyphValues = {0, 2}
  MaxGlyphArray = 2
  Os2Start = 1
  BaseSegments <- MCBaseSegments
  BaseGlyphs <- MCBaseGlyphs

SPECIFICATION Spec
INVARIANT
  CoercedOffsetLookupsSafe
