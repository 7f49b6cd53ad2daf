SPECIFICATION FairSpec
CONSTANTS
  p1 = p1
  p2 = p2
  ifx = ifx
  ify = ify
  a4 = a4
  a6 = a6
  g1 = g1
  i4 = i4
  i6 = i6
  i0 = i0
  Proc = {p1, p2}
  Iface = {ifx, ify}
  KindOf <- MCDriverKind
  Addr = {a4, a6}
  V4 = {a4}
  Group = {g1}
  Fib = {0, 1}
  Mtu = {1, 2}
  Descr = {0, 1, 2}
  NoDescr = 0
  DefaultMtu = 1
  Item = {i4, i6, i0}
  V6End = {i6}
  Param = {i6}
  Dropped = {i0}
  Start <- MCDriverStart
  SetCmd <- MCDriverSet
  DelCmd <- MCDriverDel
INVARIANT ReportIsTrue
PROPERTY CommandEnds
