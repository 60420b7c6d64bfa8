CONSTANTS
  NoPid = NoPid
  s1 = s1
  u1 = u1
  t1 = t1
  Procs <- Three
  Kind <- KindThree
  MaxSleep = 1
  Askers = {a1, a2}
  QNodes = {n1, n2}
  NoQNode = NoQNode
SPECIFICATION LiveSpec
PROPERTIES NoStarvation ExitEnds ConsoleGoesOn RequestsAreAnswered
