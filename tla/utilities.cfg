SPECIFICATION Spec
CONSTANTS
  MaxPlatforms = 3
  MaxDevices = 3
  MaxIndex = 3
  MaxOffset = 1
  Capacity = 2
  DeviceRoom = 2
  States <- TimerStates
  PrefixNames <- TimerPrefixes
  Threshold = 2
  MaxNow = 3
  MaxBack = 2
  Width = 5
  Letters = {s, t}
  MaxText = 5
  MaxPattern = 2
  Memory = 10
INVARIANTS
  IndexedIsListed
  KnownDevicesReached
  CountedIsOpened
  IndexMeansOneDevice
  FirstGpuOtherwiseCpu
  ReadingsAddUp
  RoundUpIsLeast
  Power2IsLeast
  SplitIsLeftmost
  ReplacedWhereSplit
PROPERTIES
  Power2Ends
  HelpersEnd
