CONSTANTS
  NoPid = NoPid
  s1 = s1
  u1 = u1
  t1 = t1
  Procs <- Small
  Kind <- KindSmall
  MaxSleep = 1
  Askers = {a1, a2}
  QNodes = {n1, n2, n3}
  NoQNode = NoQNode
  v1 = v1
  v2 = v2
  Walkers <- TwoProcesses
  Nobody = Nobody
  FileNames = {fa, fb}
  DirNodes = {e1, e2, e3}
  NoDirNode = NoDirNode
  Mounters <- TwoProcesses
  Devs = {fd0, cd0}
  PlaceNames = {na, nb}
  MountNodes = {k1, k2, k3}
  Root = Root
  Shells = {c1, c2, c3}
  KernelConsole = KernelConsole
  NoConsole = NoConsole
  Consoles = {kernel, shell}
  FirstScreen = kernel
  Manager = fgman
  BUF_SIZE = 3
  FG_MAXCONSOLE = 3
SPECIFICATION CallsSpec
SYMMETRY Symmetry
INVARIANTS RingIsWhole CpuToLive ListIsWhole DispatchIsSound DirectoryIsSound MountsAreSound KeyboardIsSound ScreensAreSound
