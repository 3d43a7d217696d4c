CONSTANTS
  NumGlyphs = 65535
  MaxGroups = 2
  CodePoints <- MCCodePoints
  GlyphIds <- MCGlyphIds
  BaseGroups <- MCBaseGroups
  Format0Arrays <- MCFormat0Arrays

SPECIFICATION Spec
INVARIANTS
  Format12ScalarValues
  Format12RoundTrip
  Format0RoundTrip
