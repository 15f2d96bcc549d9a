\* Over both transports, for a wallet that may reconnect with a lower start index.
SPECIFICATION FairSpec
CONSTANTS
  Transports = {"nats", "in_mem"}
  Capacity = 1
  MaxTx = 3
  Sizes = {1, 2}
  Scenarios <- MCScenarios
  Starts = {0, 2, 4}
  None = None
  Pollers = {p, q}
  Indexes = {0, 2}
  BatchSize = 2
INVARIANT SentFitsTogether
PROPERTIES AnnouncedIsSent ProgressGoesForward PollsAreAnswered
CHECK_DEADLOCK FALSE
