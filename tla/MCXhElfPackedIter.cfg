CONSTANTS
  W = 3
  Regions <- WellFormed

SPECIFICATION Spec
INVARIANT TypeOK
PROPERTY ImplementsRelocStream
