SPECIFICATION Spec
CONSTANTS
  Cards <- MCCards
  Files <- MCFiles
  Kind <- MCKind
  NoCard = "none"
  Gap = 1
  Ack = 3
  Bounce = 1
  AtPower <- MCAtPower
  MaxEvents = 2
INVARIANTS ImagesAnnounced EjectsKnown ToldInTime EjectedForSession NothingStaysOfMany
PROPERTY CooperativeSparedOnline
