\* The stream may end after any launch, and CTAs that spin for ever are judged
\* by EveryLaunchFinishes, not as a deadlock.
SPECIFICATION LiveSpec
CONSTANTS
  Geometries <- AllGeometries
  Slots = 4
INVARIANTS
  TypeOK
  LocksGuardTiles
  WorkspaceClean
  FixedReductionOrder
  WholeKUniform
PROPERTIES
  WholeKWorkspaceUntouched
  ImplementsTileGemm
  EveryLaunchFinishes
CHECK_DEADLOCK FALSE
