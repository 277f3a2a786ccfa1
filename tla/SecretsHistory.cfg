\* Nothing fails, and nothing ends: one secret and a clock that ticks are enough.
CONSTANTS
  Frames = {1}
  Senders = {1}
  Keys = {1}
  MaxTime = 2
  Faults = FALSE
  Crashes = FALSE
  StaleReads = FALSE
SPECIFICATION SecretMessagesSpec
INVARIANT HistoryTimesOpenSecrets
