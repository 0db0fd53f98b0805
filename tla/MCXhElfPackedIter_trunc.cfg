CONSTANTS
  W = 3
  Regions <- Truncated

SPECIFICATION Spec
PROPERTY ImplementsRelocStream
