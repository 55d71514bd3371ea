CONSTANTS
    NoFile = NoFile
    Envs <- MCEnvs
    DotEnvs <- MCDotEnvs
    Durations <- MCDurations
    Numerals <- MCNumerals
    HasCerts = TRUE
    MaxRequests = 2
SPECIFICATION SFairSpec
INVARIANT PlainOnlyInDevelopment
CHECK_DEADLOCK FALSE
