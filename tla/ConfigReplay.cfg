SPECIFICATION Spec
CONSTANTS
  em0 = em0
  x = x
  y = y
  a = a
  b = b
  g = g
  h = h
  v = v
  word = word
  Absent = Absent
  Name <- MCName
  TypesOf <- MCTypesOf
  Value <- MCValue
  Addr <- MCAddr
  Group <- MCGroup
  Word = word
  Mtu <- MCMtu
  DefaultMtu = 1
  BootFibs = 2
  MaxFibs = 3
  Cloneable <- MCCloneable
  Typed <- MCTyped
  MaxTyped = 2
  Learned <- MCLearned
INVARIANTS
  TypeOK
  LiveReplayOnlyBringsUp
  RestoredExactly
  ScriptComplete
  ParentsFirst
