SPECIFICATION FairSpec
CONSTANTS
  NBuf = 3
  Want = {1, 4}
  MaxCmds = 3
  MaxResets = 2
INVARIANTS HostInStep TakesOwn NeverDropped
PROPERTIES Answered Recovers
CHECK_DEADLOCK FALSE
