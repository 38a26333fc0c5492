CONSTANTS
  Commands <- MCCommands
  Numerals <- MCNumerals
  Argvs <- MCArgvs
  Intents <- MCIntents
  Loggers <- MCLoggers
  LoggerOptions <- MCLoggerOptions
  Labels <- MCLabels
  LevelLists <- MCLevelLists
  Arguments <- MCArguments
  Databases <- MCDatabases
  StorageOptions <- MCStorageOptions
  UsedGlobally = TRUE
  Packages = {"postgres", "sqlite", "pg"}
  CronProviders <- MCCronProviders
  CronNames = {"x"}
  TimerNames = {"t"}
  MaxJobs = 3
SPECIFICATION SequentialSpec
INVARIANTS
  ExecutesWhatIsMeant
  HelpIsHarmless
  EveryArgumentShows
  Stoppable
  OwnConnections
\* What is run comes to an end.
CHECK_DEADLOCK FALSE
