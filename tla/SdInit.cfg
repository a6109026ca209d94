SPECIFICATION FairSpec
CONSTANTS
  Cards <- MCCards
  Kind <- MCKind
  NoCard = "none"
  MaxNoise = 4
  MaxEvents = 3
INVARIANTS SignalAgrees ClockWithinMode LearnedKept
PROPERTY CardReady
