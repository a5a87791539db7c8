\* Three ingests of either kind over one dataset, one fault.
CONSTANTS
  Zones = {"fluid", "hull"}
  Steps = {1, 2}
  FluidZone = "fluid"
  Sources <- MCSources
  Selections <- MCSelections
  MaxIngests = 3
  MaxFaults = 1
SPECIFICATION Spec
CHECK_DEADLOCK FALSE
INVARIANTS
  TypeOK
  SuccessIsServed
  ExitIsHonest
  H5ZoneIsWhole
  SpatialLayersCurrent
PROPERTY VtkPublishesWhole
