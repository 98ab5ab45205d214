\* A counter of three values and pushes of one byte: two writers' additions wrap
\* it and one store can put back what another added; a tick counter that is no
\* multiple of a blink; one change of the flags.
CONSTANTS
  COUNT_MOD = 3
  TICK_MOD = 3
  FAST_TICKS = 1
  SLOW_TICKS = 2
  MaxSent = 1
  MaxChanges = 1
SPECIFICATION FairSpec
INVARIANTS TypeOK CostsOneTick FlashIsTraffic
PROPERTIES PixelSettles WifiLedTells
