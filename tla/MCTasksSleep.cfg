CONSTANTS
  NoPid = NoPid
  s1 = s1
  u1 = u1
  t1 = t1
  Procs <- Three
  Kind <- KindThree
  MaxSleep = 1
SPECIFICATION Spec
PROPERTY SleepersWake
