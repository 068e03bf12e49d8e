CONSTANTS
  auto = auto
  d1 = d1
  d2 = d2
  NoDev = NoDev
  NoMac = NoMac
  h = h
  g = g
  Devs = {d1, d2}
  Names = {auto}
  NameOf <- MCNameOf
  Macs = {h, g}
  Groups = {g}
  Timeout = 1
  MaxFrames = 3
SPECIFICATION Spec
INVARIANTS
  PortKept
CHECK_DEADLOCK FALSE
