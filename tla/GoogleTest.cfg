SPECIFICATION MCSpec
CONSTANTS
  Registered <- MCRegistered
  DeathSuites = {"DDeathTest"}
  Disabled = {"a2"}
  Environments = 2
  Flags <- MCFlags
  kMaxRandomSeed = 2
  Draws <- MCDraws
  Outcomes <- MCOutcomes
  MaxTrouble = 2
  Bodies <- MCBodies
  Turns = 2
  Startups = {"runs", "diverges", "exec_fails", "crashes"}
  Deeds <- MCDeeds
  Threads = {"main", "worker"}
  MainThread = "main"
  Kinds = {"success", "fatal"}
  Types = {"fatal"}
  MaxDepth = 2
  MaxScopes = 3
  MaxParts = 1
  Users = {"u", "v"}
  MaxNesting = 2
  MaxEvents = 3
  Holders = {"main", "worker"}
  Objects = {"u", "v", "w"}
  MaxPayloads = 2
INVARIANTS TypesOK GreenMeansPassed OrderBySeed NothingForgotten Paired FailFastStops ShardsPartition
  VerdictIsTrue ChildRunsThisOne ReportersAlive DeliveredOnce WritesTell EventsReachAll MatchersAlive
PROPERTY AllEnd
