SPECIFICATION FairSpec
CONSTANTS
  Devices <- MCDevices
  Kind <- MCKind
  NoDevice = "none"
  Keys = {"a", "b"}
  Slots = 1
  MaxNoise = 2
  MaxEvents = 3
  MaxTyped = 3
  MaxQueue = 2
INVARIANTS NoPressLost SlotFlushed
PROPERTIES Driven BacksOff
