SPECIFICATION FairSpec
CONSTANTS
  Devices <- MCDevices
  Kind <- MCKind
  NoDevice = "none"
  Keys = {"a", "b"}
  Slots = 1
  MaxNoise = 0
  MaxEvents = 0
  MaxTyped = 3
  MaxQueue = 2
INVARIANT HeldActsOnce
