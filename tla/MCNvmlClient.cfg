SPECIFICATION Spec
CONSTANTS
  g1 = g1
  l1 = l1
  l2 = l2
  p1 = p1
  p2 = p2
  Device = {g1}
  DeviceIds <- MCDeviceIds
  Link = {l1, l2}
  Proc = {p1, p2}
  Pad = 0
  MaxTicks = 3
  MaxTraffic = 1
  MaxResets = 1
  None = None
SYMMETRY ClientSymmetry
INVARIANTS TypeOK ReportsTrue
