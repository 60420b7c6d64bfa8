CONSTANTS
  p1 = p1
  p2 = p2
  p3 = p3
  NoPid = NoPid
  Procs <- MCProcs
  MaxDepth = 2
  q1 = q1
  q2 = q2
  good = good
  bad = bad
  d1 = d1
  d2 = d2
  h1 = h1
  h2 = h2
  Pids <- Both
  Users <- One
  Names <- TwoNames
  Invalid <- BadName
  Nodes <- TwoNodes
  NoNode = NoNode
  Handles <- TwoHandles
  NoFcb = NoFcb
  Setters = {c1, c2}
  Variables = {y1, y2}
  NoVariable = NoVariable
  Overriders = {u1, u2}
  Default = dl_malloc
  OtherAllocators = {bsd_malloc}
  OtherDevices = {default_sched}
  MaxBlocks = 2
CONSTRAINT NoTheftYet
SPECIFICATION LocksSpec
INVARIANTS ExclusionUnlessStolen CountIsSound OpenFilesAgree EnvironmentIsSound AllocatorsAgree
PROPERTIES SpinEnds BusyIsGivenBack UsesEnd
