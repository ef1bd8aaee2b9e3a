CONSTANTS
  SS = 2
  Geometries <- MCGeometries
  Handles = {1, 2}
  Calls <- MCCalls
  Paths <- MCPaths
  Preludes <- MCPreludes
  MAXCALLS = 4
SPECIFICATION Spec
CHECK_DEADLOCK FALSE
INVARIANT VolumeSound
PROPERTY CrashSpares
PROPERTY ImplementsStore
