SPECIFICATION Spec
CONSTANTS
  NULL = NULL
  Cap = 1
  BackCap = 2
  Junk <- AnyJunk
  Nets = {"sync", "init", "junk", "state", "long", "loop"}
  BoxIn <- MCBoxIn
  BoxOut <- MCBoxOut
  Emits <- MCEmits
  BoxFun <- MCBoxFun
  Boxes <- MCBoxes
  Collectors <- MCCollectors
  CollIns <- MCCollIns
  CollOut <- MCCollOut
  IsStatic <- MCIsStatic
  Parallels <- MCParallels
  ParIn <- MCParIn
  ParOuts <- MCParOuts
  Variants <- MCVariants
  IsDet <- MCIsDet
  PartOf <- MCPartOf
  Syncs <- MCSyncs
  SyncIn <- MCSyncIn
  SyncOut <- MCSyncOut
  Patterns <- MCPatterns
  Splits <- MCSplits
  SplitIn <- MCSplitIn
  SplitInitial <- MCSplitInitial
  RepIn <- MCRepIn
  RepOut <- MCRepOut
  SplitDet <- MCSplitDet
  LTag <- MCLTag
  UTag <- MCUTag
  Stars <- MCStars
  StarIn <- MCStarIn
  StarOut <- MCStarOut
  StarNext <- MCStarNext
  StarChildOut <- MCStarChildOut
  IsIncarnate <- MCIsIncarnate
  StarDet <- MCStarDet
  Exits <- MCExits
  Filters <- MCFilters
  FilterIn <- MCFilterIn
  FilterOut <- MCFilterOut
  InVariant <- MCInVariant
  Guards <- MCGuards
  Instrs <- MCInstrs
  Shift <- MCShift
  Feedbacks <- MCFeedbacks
  FbColl <- MCFbColl
  FbDisp <- MCFbDisp
  FbBuf <- MCFbBuf
  FbIn <- MCFbIn
  FbOut <- MCFbOut
  IntoOp <- MCIntoOp
  FromOp <- MCFromOp
  BackIn <- MCBackIn
  BackOuts <- MCBackOuts
  GoesBack <- MCGoesBack
  HasSource <- MCHasSource
  Links <- MCLinks
  Members <- MCMembers
  NetIn <- MCNetIn
  NetOut <- MCNetOut
  DetNets <- MCDetNets
  Inputs <- MCInputs
  Expected <- MCExpected
INVARIANTS
  OneReader
  NoUseAfterFree
  CollectorAccounting
  NoExitAfterCleanup
CHECK_DEADLOCK FALSE
