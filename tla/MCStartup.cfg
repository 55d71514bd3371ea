CONSTANTS
    NoFile = NoFile
    Envs <- MCEnvs
    DotEnvs <- MCDotEnvs
    Durations <- MCDurations
    Numerals <- MCNumerals
    HasCerts = TRUE
    MaxRequests = 2
SPECIFICATION SFairSpec
PROPERTIES ShutdownCompletes
INVARIANTS LoggerLevelConfigured
CHECK_DEADLOCK FALSE
