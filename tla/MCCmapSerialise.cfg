CONSTANTS
  OpaqueLengths = {24, 32}
  GroupCounts = {1, 2}

SPECIFICATION Spec

INVARIANTS
  TypeOK
  DirectoryFillsPad
