CONSTANTS
  W = 3
  Regions <- TornOrRejected

SPECIFICATION Spec
INVARIANT YieldsEncoded
