------------------------------- MODULE Startup -------------------------------
(***************************************************************************)
(* How a process starts: run in cmd/link/main.go up to its select.  It     *)
(* reads its configuration, connects to what it depends on, one after      *)
(* another, and starts the server; whatever fails ends it, and the calls   *)
(* deferred so far close what they were deferred for.                      *)
(*                                                                         *)
(* The context of the pings ends with its timeout or with a signal.        *)
(***************************************************************************)
EXTENDS Config, FiniteSets

VARIABLES
  env,      \* the environment variables of the process
  step,     \* where run is
  open,     \* clients and files that are open
  deferred, \* those whose Close is deferred
  ctxDone   \* a signal has arrived

startVars == <<env, step, open, deferred, ctxDone>>

Deps == {"postgres", "redis", "kafka"}
Resources == Deps \cup {"geoip", "auth"}
Steps == Resources \cup {"load", "snowflake", "listen", "serving", "failing", "exited"}

StartTypeOK ==
  /\ \A v \in Variables : env[v] \in Values[v]
  /\ step \in Steps
  /\ open \subseteq Resources /\ deferred \subseteq Resources
  /\ ctxDone \in BOOLEAN

cfg == Settings(env)
ClicksOn == cfg.KAFKA_BROKERS # {}

\* What a process with these settings works with.
Wanted ==
  {"postgres", "redis"}
    \cup (IF ClicksOn THEN {"kafka"} ELSE {})
    \cup (IF ClicksOn /\ cfg.GEOIP_DB_PATH # "" THEN {"geoip"} ELSE {})
    \cup (IF cfg.AUTH_ADDR # "" THEN {"auth"} ELSE {})

Begin(environments) ==
  /\ env \in environments
  /\ step = "load"
  /\ open = {} /\ deferred = {}
  /\ ctxDone = FALSE

After(s) ==
  CASE s = "postgres"  -> "redis"
    [] s = "redis"     -> "snowflake"
    [] s = "snowflake" -> IF ClicksOn THEN "kafka" ELSE "auth"
    [] s = "kafka"     -> "geoip"
    [] s = "geoip"     -> "auth"
    [] s = "auth"      -> "listen"

-----------------------------------------------------------------------------
Load ==
  /\ step = "load"
  /\ step' = IF Problems(env) = {} THEN "postgres" ELSE "failing"
  /\ UNCHANGED <<env, open, deferred, ctxDone>>

\* Nobody defers the closing of the producer.
Opens(resource) ==
  /\ open' = open \cup {resource}
  /\ deferred' = deferred \cup ({resource} \ {"kafka"})

\* NewPostgres, NewRedis, NewProducer: a client is made, and its ping answered.
Connect(d) ==
  /\ step = d
  /\ ~ctxDone
  /\ Opens(d)
  /\ step' = After(d)
  /\ UNCHANGED <<env, ctxDone>>

\* Mutant: the client whose ping fails is not closed.
PingFailsKeepsClient(d) ==
  /\ step = d
  /\ step' = "failing"
  /\ open' = open \cup {d}
  /\ UNCHANGED <<env, deferred, ctxDone>>

\* Mutant: the context of the pings has no timeout.
PingWaitsForSignal(d) ==
  /\ step = d
  /\ ctxDone
  /\ step' = "failing"
  /\ UNCHANGED <<env, open, deferred, ctxDone>>

\* The ping is refused, its context ends, or the address is no address; the client
\* is closed again.
PingFails(d) ==
  /\ step = d
  /\ step' = "failing"
  /\ UNCHANGED <<env, open, deferred, ctxDone>>

\* snowflake.New looks at the range again.
MakeGenerator ==
  /\ step = "snowflake"
  /\ step' = IF cfg.WORKER_ID \in 0 .. MaxWorkerID THEN After(step) ELSE "failing"
  /\ UNCHANGED <<env, open, deferred, ctxDone>>

\* Mutant: a variable that is set counts, if only to nothing.
OpenAlways(setting) == env[setting] # Unset

IsSet(setting) == cfg[setting] # ""

\* NewGeoIP, authclient.New: neither waits for anybody, both may fail.
OpenOptional(resource, setting) ==
  /\ step = resource
  /\ \/ ~IsSet(setting) /\ step' = After(step) /\ UNCHANGED <<open, deferred>>
     \/ IsSet(setting) /\ step' = After(step) /\ Opens(resource)
     \/ IsSet(setting) /\ step' = "failing" /\ UNCHANGED <<open, deferred>>
  /\ UNCHANGED <<env, ctxDone>>

\* The server goes its own way, and run waits in its select.
Listen ==
  /\ step = "listen"
  /\ step' = "serving"
  /\ UNCHANGED <<env, open, deferred, ctxDone>>

\* The deferred calls, and os.Exit(1).
GiveUp ==
  /\ step = "failing"
  /\ step' = "exited"
  /\ open' = open \ deferred
  /\ deferred' = {}
  /\ UNCHANGED <<env, ctxDone>>

Dial == \E d \in Deps : Connect(d)

\* What happens by itself or when a timeout passes.
Proceeds ==
  \/ Load \/ MakeGenerator \/ Listen \/ GiveUp
  \/ OpenOptional("geoip", "GEOIP_DB_PATH") \/ OpenOptional("auth", "AUTH_ADDR")
  \/ \E d \in Deps : PingFails(d)

Starts == Dial \/ Proceeds

-----------------------------------------------------------------------------
(***************************************************************************)
(* Properties.                                                             *)
(***************************************************************************)
\* The server runs with what its settings ask for and nothing else, and with a
\* worker number its generator accepts (main.go: run; config.go: Load).
ServesAsConfigured ==
  step = "serving" => Problems(env) = {} /\ open = Wanted /\ cfg.WORKER_ID <= MaxWorkerID

\* A start that fails at any step closes what the steps before it have opened,
\* but for the producer, which has no click yet (main.go: the deferred calls).
FailedStartLeavesNothing == step = "exited" => open \subseteq {"kafka"}

\* A start ends, in service or with an error, although a dependency may hang
\* (main.go: initCtx).
StartEnds == step = "load" ~> step \in {"serving", "exited"}

=============================================================================
