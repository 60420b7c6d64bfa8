CONSTANTS
  p1 = p1
  p2 = p2
  p3 = p3
  NoPid = NoPid
  Procs <- MCTwo
  MaxDepth = 2
SPECIFICATION Spec
INVARIANT MutualExclusion
