SPECIFICATION Spec
CONSTANTS
  Readers = {"cycles"}
  MaxCommands = 0
  MaxCases = 0
  MaxMore = 0
  MaxPeriod = 8
  EdgeAtEnd = TRUE
  Any = Any
  Unset = Unset
  Idle = Idle
  DisInsts <- MCDisInsts
  DisCells <- MCDisCells
  DisCellOf <- MCDisCellOf
  DisPortBits <- MCDisPortBits
  DisBits <- MCDisBits
  DisTopPorts <- MCDisTopPorts
  DisMatches <- MCDisMatches
  DisCommands <- MCDisCommands
  ChkNodes <- MCChkNodes
  ChkNodeOf <- MCChkNodeOf
  ChkCommands <- MCChkCommands
  ChkEarly <- MCChkEarly
  ChkLate <- MCChkLate
  ChkRegisterPins <- MCChkRegisterPins
  ChkPeriod = 10
  ChkUncertainty <- MCChkUncertainty
  ChkNoNode = "none"
  DelPorts <- MCDelPorts
  DelClockPorts <- MCDelClockPorts
  DelEdges <- MCDelEdges
  DelCommands <- MCDelCommands
  DelAllBut <- MCDelAllBut
  DelDefaultDelay = 7
  DelDefaultSlew = 0
  DelCapture <- MCDelCapture
  DelUncertainty = 1
  DelNoClock <- MCDelNoClock
  ExcClocks <- MCExcClocks
  ExcMatches <- MCExcMatches
  ExcStatements <- MCExcStatements
  ExcPaths <- MCExcPaths
  ExcNoClock = "none"
  ExcNoName = "noname"
  ExcStar = "*"
  LdJobTexts <- MCLdJobTexts
  LdSdcFiles <- MCLdSdcFiles
  LdNoClockPort = "none"
  SiInsts <- MCSiInsts
  SiInPins <- MCSiInPins
  SiOutPins <- MCSiOutPins
  SiSupport <- MCSiSupport
  SiFunction <- MCSiFunction
  SiDisableOf <- MCSiDisableOf
  SiInPorts <- MCSiInPorts
  SiOutPorts <- MCSiOutPorts
  SiLoads <- MCSiLoads
  SiTies <- MCSiTies
  SiArcs <- MCSiArcs
  SiCases <- MCSiCases
  SiUnknown = "unknown"
  SiNoPin = "nopin"
  CycClockEdges <- MCCycClockEdges
  CycRelatedCycles <- MCCycRelatedCycles
  CycFreeCycles <- MCCycFreeCycles
  CmdCalls <- MCCmdCalls
  CmdJobs <- MCCmdJobs
  CmdSlacks <- MCCmdSlacks
  ScrCommands <- MCScrCommands
  ScrOpenings <- MCScrOpenings
  ScrMissing <- MCScrMissing
  ScrNoFile = "none"
INVARIANT RelationIsClosest
CHECK_DEADLOCK FALSE
