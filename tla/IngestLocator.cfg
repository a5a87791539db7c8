\* The point buckets of an H5 zone over an earlier CFD ingest.
CONSTANTS
  Zones = {"fluid", "hull"}
  Steps = {1, 2}
  FluidZone = "fluid"
  Sources <- MCSources
  Selections <- MCSelections
  MaxIngests = 2
  MaxFaults = 0
SPECIFICATION Spec
CHECK_DEADLOCK FALSE
INVARIANT LocatorIsCurrent
