SPECIFICATION Spec
CONSTANTS
  Readers = {"disables", "data_checks", "port_delays", "exceptions", "job", "sim", "cycles", "cli", "script"}
  MaxCommands = 3
  MaxCases = 2
  MaxMore = 3
  MaxPeriod = 5
  EdgeAtEnd = FALSE
  Any = Any
  Unset = Unset
  Idle = Idle
  DisInsts <- MCDisInsts
  DisCells <- MCDisCells
  DisCellOf <- MCDisCellOf
  DisPortBits <- MCDisPortBits
  DisBits <- MCDisBits
  DisTopPorts <- MCDisTopPorts
  DisMatches <- MCDisMatches
  DisCommands <- MCDisCommands
  ChkNodes <- MCChkNodes
  ChkNodeOf <- MCChkNodeOf
  ChkCommands <- MCChkCommands
  ChkEarly <- MCChkEarly
  ChkLate <- MCChkLate
  ChkRegisterPins <- MCChkRegisterPins
  ChkPeriod = 10
  ChkUncertainty <- MCChkUncertainty
  ChkNoNode = "none"
  DelPorts <- MCDelPorts
  DelClockPorts <- MCDelClockPorts
  DelEdges <- MCDelEdges
  DelCommands <- MCDelCommands
  DelAllBut <- MCDelAllBut
  DelDefaultDelay = 7
  DelDefaultSlew = 0
  DelCapture <- MCDelCapture
  DelUncertainty = 1
  DelNoClock <- MCDelNoClock
  ExcClocks <- MCExcClocks
  ExcMatches <- MCExcMatches
  ExcStatements <- MCExcStatements
  ExcPaths <- MCExcPaths
  ExcNoClock = "none"
  ExcNoName = "noname"
  ExcStar = "*"
  LdJobTexts <- MCLdJobTexts
  LdSdcFiles <- MCLdSdcFiles
  LdNoClockPort = "none"
  SiInsts <- MCSiInsts
  SiInPins <- MCSiInPins
  SiOutPins <- MCSiOutPins
  SiSupport <- MCSiSupport
  SiFunction <- MCSiFunction
  SiDisableOf <- MCSiDisableOf
  SiInPorts <- MCSiInPorts
  SiOutPorts <- MCSiOutPorts
  SiLoads <- MCSiLoads
  SiTies <- MCSiTies
  SiArcs <- MCSiArcs
  SiCases <- MCSiCases
  SiUnknown = "unknown"
  SiNoPin = "nopin"
  CycClockEdges <- MCCycClockEdges
  CycRelatedCycles <- MCCycRelatedCycles
  CycFreeCycles <- MCCycFreeCycles
  CmdCalls <- MCCmdCalls
  CmdJobs <- MCCmdJobs
  CmdSlacks <- MCCmdSlacks
  ScrCommands <- MCScrCommands
  ScrOpenings <- MCScrOpenings
  ScrMissing <- MCScrMissing
  ScrNoFile = "none"
INVARIANT TypeOK
INVARIANT ArcsFollowFile
INVARIANT ChecksSurviveAll
INVARIANT MarginsFollowFile
PROPERTY UnsetsOnlyRelax
INVARIANT SlotsFollowFile
INVARIANT DroppedByFalsePathOnly
INVARIANT HoldFollowsSetup
INVARIANT OrderImmaterial
INVARIANT LoadedIsRunnable
INVARIANT SaidOrApplied
INVARIANT ValuesAreTheClosure
INVARIANT ConflictsSaid
INVARIANT TimedIsWhatSwitches
PROPERTY Settles
INVARIANT RelationIsClosest
PROPERTY WalkEnds
INVARIANT GateTellsTheVerdict
INVARIANT SuccessDelivers
INVARIANT AppliedOrSaid
INVARIANT CostsOnlyItself
INVARIANT ReportsInOrder
CHECK_DEADLOCK FALSE
