CONSTANTS
  WordBits = 64
  NotFound = NotFound
  Views <- MCViews
  Queries <- MCQueries
SPECIFICATION Spec
INVARIANT LookupCorrect
PROPERTY LookupReturns
