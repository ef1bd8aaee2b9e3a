SPECIFICATION Spec
CONSTANTS
  p1 = p1
  p2 = p2
  k1 = k1
  k2 = k2
  k3 = k3
  short = short
  long = long
  Procs = {p1, p2}
  Scanners = {p2}
  Keys = {k1, k2, k3}
  Vals = {short, long}
  None = None
  Chains = {"h1", "h2"}
  Hash <- MCHash
  KeyLen <- MCKeyLen
  Calls <- MCCalls
  DatLen <- MCDatLen
  PTR_MAX = 2
  NREC = 3
INVARIANT FilesSound WritersApart
PROPERTY ImplementsKv
