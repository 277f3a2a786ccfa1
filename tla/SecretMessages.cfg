CONSTANTS
  Frames = {1, 2}
  Senders = {1}
  Keys = {1, 2}
  MaxTime = 2
  Faults = TRUE
  Crashes = TRUE
  StaleReads = TRUE
SPECIFICATION SecretMessagesSpec
INVARIANTS
  SecretMessagesTypeOK
  AnswersMatchStore
  ListedSecretsAreComplete
  FilesMatchRows
  OrphansAreExplained
  DecryptionIsSound
  HistoryIsComplete
PROPERTIES
  ImplementsMailbox
  FramesEnd
