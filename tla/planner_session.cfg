SPECIFICATION PlannerSpec
CONSTANTS
  f1 = f1
  f2 = f2
  g1 = g1
  g2 = g2
  d1 = d1
  d2 = d2
  x1 = x1
  x2 = x2
  s1 = s1
  s2 = s2
  s3 = s3
  in = in
  clk = clk
  NoGraph = NoGraph
  NoCheckpoint = NoCheckpoint
  Flops = {f1, f2}
  Gates = {g1, g2}
  Delays = {d1, d2}
  ClashNames = {d2}
  Ports = {in, clk}
  ClockPort = clk
  CombCells = {x1, x2}
  SeqCells = {s1, s2, s3}
  DelayCell = x1
  xbad = xbad
  BadCell = xbad
  CkCap <- MCCkCap
  InitInsts <- MCShort
  SimpleCtx = TRUE
  Proposals = {x1, x2, s2, xbad}
  MaxUpdates = 3
  MaxStaged = 1
INVARIANT RejectedLeaveNoTrace
CHECK_DEADLOCK FALSE
