CONSTANTS
  Procs = {p1, p2}
  Names = {1, 2}
  Stripe <- OrderedStripes
  NumKeyLocks = 2
  Pairs <- EveryPair
  Ops <- AllOps
  Nobody = Nobody
  MaxRuns = 3
  Clients = {c1, c2}
  Keys = {k1}
  None = None
  BigCmds = {2}
  Policies = {"always", "everysec"}
  BufSize = 1
  Events = {"exec"}
  MaxCmds = 3
  MaxCrashes = 1
  Components = {"locks", "aof"}
SPECIFICATION MCSpec
INVARIANTS NoCircularWait ClientOrder ReplayGivesContents AckedSurvives
PROPERTIES ReadStaysCurrent EveryCommandAnswers AckedReachesDisk
