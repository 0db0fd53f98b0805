CONSTANTS
  Images <- MCImagesGnuFirst
  NULL = NULL
  Path = Path
  MaxCalls = 4
  HostClass = 64
  HostArch = "AARCH64"
SPECIFICATION Spec
INVARIANT HashTablesConsistent
