SPECIFICATION Spec
CHECK_DEADLOCK FALSE
INVARIANTS WalksTrue
           SignalsKept
           CgRight
           DataRight
PROPERTIES DebuggerSound
