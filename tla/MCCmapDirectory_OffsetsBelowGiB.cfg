CONSTANTS
  GiB = 44
  Offsets = {28, 36, 44}
  BadOffsets = {8, 50, 52}
  Formats = {4, 12, 6}
  DispatchFormats = {0, 4, 12, 13, 14}
  Lens = {0, 8, 16}
  Keys <- MCKeys
  MaxTables = 3
  TableLength = 52
  LayoutKeys <- MCLayoutKeys
  DispatchOffsets <- MCDispatchOffsets

SPECIFICATION Spec

INVARIANT OffsetsBelowGiB
