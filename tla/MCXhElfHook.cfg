CONSTANTS
  Slots <- MCSlots
  Pages <- MCPages
  PageOf <- MCPageOf
  SegFlagsOf <- MCSegFlagsOf
  Funcs <- MCFuncs
  Names <- MCNames
  Images <- MCImages
  NoSeg = NoSeg
  NotFound = NotFound
  NoValue = NoValue
  NULL = NULL
  MaxCalls = 3

SPECIFICATION Spec
INVARIANT TypeOK
INVARIANT OldFuncNeverNew
INVARIANT RoundTrip
INVARIANT SlotsOldOrNew
PROPERTY WriteOnlyWhenWritable
