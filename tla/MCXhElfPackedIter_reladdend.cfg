CONSTANTS
  W = 3
  Regions <- RelEntryAddend

SPECIFICATION Spec
INVARIANT YieldsEncoded
