SPECIFICATION Spec
CONSTANTS
  Events = {e1, e2}
  Batches = {b1, b2, b3, b4, b5}
  QueueCapacity = 1
  MaxPending = 2
  Trigger = 2
  CompactAt = 2
  CounterMax = 3
  MaxCrashes = 2
  MaxErrors = 1
  NoFile = NoFile
  Torn = Torn
INVARIANT CrashesCountNothingTwice
