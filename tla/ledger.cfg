\* Caps with and without room above them, in both builds.
SPECIFICATION Spec
CONSTANTS
  TokenLimit = 16
  IterLimit = 4
  Caps = {0, 2, 3, 12, 15}
  ClockCaps = {0, 1}
  Uncapped = Uncapped
  MaxRequest = 3
  MaxSpent = 18
  MaxTicks = 5
  Second = 2
  MaxElapsed = 4
INVARIANTS CapsHold LedgersAgree
