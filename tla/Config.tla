------------------------------- MODULE Config -------------------------------
(***************************************************************************)
(* internal/config: what Load makes of the environment.  A variable is     *)
(* unset or has a value; the values are those the code and its callers     *)
(* tell apart.                                                             *)
(***************************************************************************)
EXTENDS Integers

CONSTANTS
  Unset,       \* os.LookupEnv finds nothing
  Word,        \* a value that is no number, no duration
  MaxWorkerID  \* 1023 in the code

\* The values a variable may have.  Brokers are what is left of a list without
\* its blank parts, so " , " is the empty list.
Values == [
  POSTGRES_DSN     |-> {Unset, "", "dsn"},
  WORKER_ID        |-> {Unset, Word, -1, 0, MaxWorkerID, MaxWorkerID + 1},
  REDIS_DB         |-> {Unset, Word, 0},
  SHUTDOWN_TIMEOUT |-> {Unset, Word, -1, 10},
  KAFKA_BROKERS    |-> {Unset, {}, {"broker"}},
  GEOIP_DB_PATH    |-> {Unset, "", "file"},
  AUTH_ADDR        |-> {Unset, "", "host"}]

Variables == DOMAIN Values
Numeric == {"WORKER_ID", "REDIS_DB", "SHUTDOWN_TIMEOUT"}

Default == [
  WORKER_ID |-> 0, REDIS_DB |-> 0, SHUTDOWN_TIMEOUT |-> 10, KAFKA_BROKERS |-> {"broker"},
  POSTGRES_DSN |-> "", GEOIP_DB_PATH |-> "", AUTH_ADDR |-> ""]

\* getEnv, getEnvInt, getEnvDuration: an unset variable and one that cannot be
\* parsed have the default.
Get(env, v) == IF env[v] = Unset \/ (v \in Numeric /\ env[v] = Word) THEN Default[v] ELSE env[v]

Settings(env) == [v \in Variables |-> Get(env, v)]

WorkerFits(n) == 0 <= n /\ n <= MaxWorkerID

\* The variables Load complains about, all at once.
Problems(env) ==
  {v \in Numeric : env[v] = Word}
    \cup {v \in {"POSTGRES_DSN"} : Get(env, v) = ""}
    \cup {v \in {"WORKER_ID"} : ~WorkerFits(Get(env, v))}

=============================================================================
