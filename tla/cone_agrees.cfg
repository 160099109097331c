SPECIFICATION Spec
CONSTANTS
  a = a
  b = b
  d = d
  clk = clk
  g1 = g1
  g2 = g2
  g3 = g3
  g4 = g4
  cb = cb
  ff = ff
  Never = Never
  NoSlew = NoSlew
  Ports = {a, b, d, clk}
  Order <- MCOrder
  Fanin <- ForkFanin
  InitCell <- ForkCell
  Swappable <- ForkSwappable
  ClockPins <- FlopClock
  Lib <- MCLib
  DelayOf <- MCDelayOf
  SlewOf <- MCSlewOf
  Derate <- MCDerate
  Disabled <- GatedInput
  Cut = {}
  Held = {}
  ClockPorts = {clk}
  IdealPorts = {clk}
  IdealSlew <- MCIdealSlew
  PortThreshold <- MCPortThreshold
  Rethreshold <- MCRethreshold
  Driven = {d}
  DriveDelay <- MCDriveDelay
  DriveSlew <- MCDriveSlew
  PortSeeds <- MCPortSeeds
  MaxSwaps = 4
INVARIANT TypeOK
INVARIANT LoadsFaithful
INVARIANT LanesFaithful
CHECK_DEADLOCK FALSE
