------------------------------ MODULE Startup ------------------------------
(***************************************************************************)
(* Process startup and shutdown of the Kite backend: main() in             *)
(* cmd/server/main.go with the configuration it loads through              *)
(* internal/config/config.go.  main reads KITE_PROJECT_ENV, loads the      *)
(* .env.<environment> file of the working directory (godotenv never        *)
(* overrides a variable already set), builds and validates the Config,     *)
(* sets up the logger, opens the database, sets up the router and starts   *)
(* the HTTP server in a goroutine, then waits for SIGINT or SIGTERM and    *)
(* shuts the server down under a deadline.                                 *)
(*                                                                         *)
(* The environment is a function from the variables the properties tell    *)
(* apart to strings, "" for unset.  KITE_READ_TIMEOUT stands for the four  *)
(* duration settings, which LoadConfig reads the same way.                 *)
(***************************************************************************)
EXTENDS Naturals

CONSTANTS
    Envs,         \* the process environments main may start in
    DotEnvs,      \* project environment -> its .env file's variables, or NoFile
    NoFile,
    Durations,    \* the strings time.ParseDuration accepts -> their seconds
    Numerals,     \* the strings strconv.Atoi accepts -> their value
    HasCerts,     \* are /var/tls/tls.crt and tls.key present?
    MaxRequests   \* bound: requests in flight at once

Keys == {"KITE_PROJECT_ENV", "KITE_PORT", "KITE_READ_TIMEOUT",
         "KITE_LOG_LEVEL", "KITE_LOG_FORMAT"}

NoCfg == [none |-> TRUE]
NoLogger == [none |-> TRUE]

VARIABLES
    env,         \* the process environment
    phase,       \* where main is
    projectEnv,  \* main's projectEnv, read before the .env file is loaded
    cfg,         \* the Config LoadConfig returned
    logger,      \* the logger setupLogger built
    srv,         \* the server goroutine: "none", "starting", "serving", "closed"
    tls,         \* does the server goroutine serve TLS?
    inflight,    \* requests being served
    exit         \* how the process ended

svars == <<env, phase, projectEnv, cfg, logger, srv, tls, inflight, exit>>

\* GetEnvOrDefault (and getEnvOrDefault): an unset or empty variable gives
\* the default.
GetEnvOrDefault(e, key, default) == IF e[key] # "" THEN e[key] ELSE default

\* GetEnvDurationOrDefault as written: the result of time.ParseDuration is
\* returned when it FAILED (the zero duration), and the default otherwise.
GetEnvDurationOrDefault(e, key, default) ==
    IF e[key] # "" /\ e[key] \notin DOMAIN Durations THEN 0 ELSE default

\* godotenv.Load(".env.<projectEnv>"): a missing file changes nothing; the
\* file's variables fill only the ones not already set.
DotEnvLoad(e, file) ==
    IF file = NoFile THEN e
    ELSE [k \in Keys |-> IF e[k] # "" THEN e[k] ELSE file[k]]

\* LoadConfig's Config, reduced to the fields main and the properties read.
Config(e) ==
    [port        |-> GetEnvOrDefault(e, "KITE_PORT", "8080"),
     readTimeout |-> GetEnvDurationOrDefault(e, "KITE_READ_TIMEOUT", 30),
     environment |-> GetEnvOrDefault(e, "KITE_PROJECT_ENV", "production"),
     level       |-> GetEnvOrDefault(e, "KITE_LOG_LEVEL", "info"),
     format      |-> GetEnvOrDefault(e, "KITE_LOG_FORMAT", "json")]

ValidEnvs == {"development", "staging", "production", "test"}
ValidLogLevels == {"debug", "info", "warn", "error", "fatal", "panic"}
ValidLogFormats == {"json", "text"}

\* Config.Validate (the database fields have non-empty defaults and are
\* left out).
ValidateNoLevelCheck(c) ==   \* mutant: the log level list is not checked
    /\ c.port # ""
    /\ c.port \in DOMAIN Numerals /\ Numerals[c.port] \in 1..65535
    /\ c.environment \in ValidEnvs
    /\ c.format \in ValidLogFormats
Validate(c) ==
    /\ c.port # ""
    /\ c.port \in DOMAIN Numerals /\ Numerals[c.port] \in 1..65535
    /\ c.environment \in ValidEnvs
    /\ c.level \in ValidLogLevels
    /\ c.format \in ValidLogFormats

\* logrus.ParseLevel knows trace besides the levels Validate allows; an
\* unknown name falls back to info.
LogrusLevels == ValidLogLevels \cup {"trace"}
ParseLevel(s) == IF s \in LogrusLevels THEN s ELSE "info"

\* setupLogger reads the environment again, with its own defaults.
SetupLogger(e) ==
    [level  |-> ParseLevel(GetEnvOrDefault(e, "KITE_LOG_LEVEL", "info")),
     format |-> IF GetEnvOrDefault(e, "KITE_PROJECT_ENV", "development") = "production"
                THEN "json" ELSE "text"]
-----------------------------------------------------------------------------
SInit ==
    /\ env \in Envs
    /\ phase = "start"
    /\ projectEnv = ""
    /\ cfg = NoCfg
    /\ logger = NoLogger
    /\ srv = "none"
    /\ tls = FALSE
    /\ inflight = 0
    /\ exit = "none"

Fatal ==
    /\ phase' = "exited" /\ exit' = "fatal"

\* main.go 20-31: projectEnv, then the .env file named after it.
LoadEnv ==
    /\ phase = "start"
    /\ LET pe == GetEnvOrDefault(env, "KITE_PROJECT_ENV", "development") IN
       /\ projectEnv' = pe
       /\ env' = DotEnvLoad(env, DotEnvs[pe])
    /\ phase' = "config"
    /\ UNCHANGED <<cfg, logger, srv, tls, inflight, exit>>

\* main.go 34-46: LoadConfig (log.Fatalf when it fails), then setupLogger.
LoadConfig ==
    /\ phase = "config"
    /\ IF Validate(Config(env))
       THEN /\ cfg' = Config(env)
            /\ logger' = SetupLogger(env)
            /\ phase' = "database" /\ UNCHANGED exit
       ELSE Fatal /\ UNCHANGED <<cfg, logger>>
    /\ UNCHANGED <<env, projectEnv, srv, tls, inflight>>

\* main.go 48-105: InitDatabase and db.DB() may fail (Fatal); SetupRouter
\* never returns an error; the server goroutine is started and main waits
\* for a signal.
Start ==
    /\ phase = "database"
    /\ \/ Fatal /\ UNCHANGED srv
       \/ phase' = "running" /\ srv' = "starting" /\ UNCHANGED exit
    /\ UNCHANGED <<env, projectEnv, cfg, logger, tls, inflight>>

\* main.go 84-98, the server goroutine: TLS unless projectEnv is
\* "development".  A listen error other than ErrServerClosed is Fatal and
\* ends the process; after Shutdown, ListenAndServe returns ErrServerClosed.
Listen ==
    /\ srv = "starting" /\ phase # "exited"
    /\ tls' = (projectEnv # "development")
    /\ IF phase = "shutdown"
       THEN srv' = "closed" /\ UNCHANGED <<phase, exit>>
       ELSE \/ /\ tls' => HasCerts
               /\ srv' = "serving" /\ UNCHANGED <<phase, exit>>
            \/ Fatal /\ UNCHANGED srv
    /\ UNCHANGED <<env, projectEnv, cfg, logger, inflight>>

\* A request reaches the router; one finishes.  A request may hang (its
\* handler waits on the database), so finishing is not fair.
Arrive ==
    /\ srv = "serving" /\ phase = "running" /\ inflight < MaxRequests
    /\ inflight' = inflight + 1
    /\ UNCHANGED <<env, phase, projectEnv, cfg, logger, srv, tls, exit>>
Finish ==
    /\ inflight > 0 /\ phase # "exited"
    /\ inflight' = inflight - 1
    /\ UNCHANGED <<env, phase, projectEnv, cfg, logger, srv, tls, exit>>

\* main.go 107-116: SIGINT or SIGTERM; server.Shutdown closes the listener
\* and waits for the requests in flight.
Signal ==
    /\ phase = "running"
    /\ phase' = "shutdown"
    /\ srv' = IF srv = "serving" THEN "closed" ELSE srv
    /\ UNCHANGED <<env, projectEnv, cfg, logger, tls, inflight, exit>>

\* Shutdown returns nil once no request is in flight ("shutdown gracefully").
Drained ==
    /\ phase = "shutdown" /\ inflight = 0
    /\ phase' = "exited" /\ exit' = "graceful"
    /\ UNCHANGED <<env, projectEnv, cfg, logger, srv, tls, inflight>>

\* The context of context.WithTimeout(ShutdownTimeout) expires first:
\* Shutdown returns its error ("forced to shutdown") and main returns,
\* ending the requests still in flight.
DeadlineNever == FALSE   \* mutant: Shutdown(context.Background())
Deadline ==
    /\ phase = "shutdown" /\ inflight > 0
    /\ phase' = "exited" /\ exit' = "forced"
    /\ UNCHANGED <<env, projectEnv, cfg, logger, srv, tls, inflight>>

SNext ==
    \/ LoadEnv \/ LoadConfig \/ Start \/ Listen
    \/ Arrive \/ Finish \/ Signal \/ Drained \/ Deadline

\* Goroutines keep running and the shutdown timer fires: every step of main
\* and of the server goroutine is weakly fair; requests arriving and
\* finishing are not.
SFairSpec ==
    /\ SInit /\ [][SNext]_svars
    /\ WF_svars(LoadEnv) /\ WF_svars(LoadConfig) /\ WF_svars(Start)
    /\ WF_svars(Listen) /\ WF_svars(Drained) /\ WF_svars(Deadline)
-----------------------------------------------------------------------------
\* Once a signal started the shutdown, the process ends: Shutdown returns
\* when the requests drained or its deadline passed, whichever comes first,
\* even when a handler never returns.
ShutdownCompletes == (phase = "shutdown") ~> (phase = "exited")

\* The logger setupLogger builds logs at the level the validated Config
\* names: LoadConfig and setupLogger read KITE_LOG_LEVEL separately, after
\* the .env file, and Validate rejects what logrus would not parse.
LoggerLevelConfigured ==
    cfg # NoCfg /\ logger # NoLogger => logger.level = cfg.level

\* Plain HTTP is served only by a server configured as "development":
\* main picks TLS from its own reading of KITE_PROJECT_ENV, taken before
\* the .env file and with the default "development", while LoadConfig's
\* Environment defaults to "production".
PlainOnlyInDevelopment ==
    srv = "serving" /\ ~tls => cfg.environment = "development"
====
