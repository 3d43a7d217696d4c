CONSTANTS
  MaxCode = 3
  Tables <- MCTables
  Os2Inits <- MCOs2Inits

SPECIFICATION Spec

INVARIANT Os2ReflectsEmitted
