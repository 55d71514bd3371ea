----------------------------- MODULE MCStartup -----------------------------
EXTENDS Startup, TLC

\* Values of each variable: unset, a valid one and, where the code parses
\* or validates it, an invalid one.
MCValues ==
    [KITE_PROJECT_ENV  : {"", "production", "development"},
     KITE_PORT         : {"", "0"},
     KITE_READ_TIMEOUT : {"", "5s", "soon"},
     KITE_LOG_LEVEL    : {"", "debug", "loud"},
     KITE_LOG_FORMAT   : {"", "text"}]
MCEnvs == {[k \in Keys |-> r[k]] : r \in MCValues}

\* .env.development sets developer defaults but not KITE_PROJECT_ENV; no
\* other environment has a file.
DevFile ==
    [k \in Keys |-> CASE k = "KITE_READ_TIMEOUT" -> "5s"
                      [] k = "KITE_LOG_LEVEL" -> "debug"
                      [] OTHER -> ""]
MCDotEnvs ==
    [pe \in {"production", "development"} |->
        IF pe = "development" THEN DevFile ELSE NoFile]

MCDurations == "5s" :> 5
MCNumerals == ("8080" :> 8080) @@ ("0" :> 0)
====
