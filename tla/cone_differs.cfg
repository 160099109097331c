SPECIFICATION Spec
CONSTANTS
  a = a
  b = b
  d = d
  clk = clk
  g1 = g1
  g2 = g2
  g3 = g3
  g4 = g4
  cb = cb
  hub = hub
  dead = dead
  s1 = s1
  s2 = s2
  s3 = s3
  s4 = s4
  ff = ff
  Never = Never
  NoSlew = NoSlew
  Ports = {a, b, d, clk}
  Order <- DiffersOrder
  Fanin <- DiffersFanin
  InitCell <- DiffersCell
  Swappable <- DiffersSwappable
  ClockPins <- FlopClock
  Lib <- DiffersLib
  DelayOf <- MCDelayOf
  SlewOf <- MCSlewOf
  Derate <- MCDerate
  Disabled <- DiffersDisabled
  Cut = {}
  Held = {}
  ClockPorts = {clk}
  IdealPorts = {}
  IdealSlew <- MCIdealSlew
  PortThreshold <- MCPortThreshold
  Rethreshold <- MCRethreshold
  Driven = {d}
  DriveDelay <- MCDriveDelay
  DriveSlew <- MCDriveSlew
  PortSeeds <- DiffersSeeds
  MaxSwaps = 1
INVARIANT LanesFaithful
CHECK_DEADLOCK FALSE
