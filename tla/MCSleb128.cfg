CONSTANTS
  W = 8
  Inputs <- MCInputs
SPECIFICATION Spec
INVARIANT TypeOK
INVARIANT DecodesEncoded
