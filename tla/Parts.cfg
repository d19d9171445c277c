CONSTANTS
  Bytes = {0, 1}
  size = 3
  MaxFeed = 5
  MaxStream = 8
  StreamScripts = {"entries", "groups"}
  Backward = FALSE
  MaxCalls = 5
  Subs = {"s1", "s2"}
  Publishers = {"p1"}
  Channels = {"news"}
  Matches <- News
  QueueSize = 2
  ZMembers = {1, 2, 3}
  Components = {"backlog", "stream", "quicklist", "listpack", "skiplist", "glob", "lcs", "pubsub"}
SPECIFICATION MCSpec
INVARIANTS PartialSyncExact StructuresAgree AlgorithmsExact HubAgrees DeliveredOnce
PROPERTIES StreamImplementsLog StructuresImplementSpecs NothingSentAfterClose
CHECK_DEADLOCK FALSE
