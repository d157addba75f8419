----------------------------- MODULE MC_Process -----------------------------
(***************************************************************************)
(* An instance of Process for TLC: the clicks of MC_ClickDelivery, and     *)
(* environments with every value of every variable.                        *)
(***************************************************************************)
EXTENDS Process

CONSTANTS k1, k2, k3, a, b, p1, p2

TwoAndOne == [r \in Clicks |-> IF r = k3 THEN b ELSE a]
ByCode == [c \in Codes |-> IF c = a THEN p1 ELSE p2]

\* Everything on, and what is needed only.
Full == [POSTGRES_DSN |-> "dsn", WORKER_ID |-> MaxWorkerID, REDIS_DB |-> 0, SHUTDOWN_TIMEOUT |-> 10,
         KAFKA_BROKERS |-> {"broker"}, GEOIP_DB_PATH |-> "file", AUTH_ADDR |-> "host"]
NoClicks == [Full EXCEPT !.KAFKA_BROKERS = {}, !.WORKER_ID = 0, !.AUTH_ADDR = ""]
Least == [v \in Variables |-> IF v = "POSTGRES_DSN" THEN "dsn" ELSE Unset]

\* What is wrong in one variable, or in two.
WrongIn(v) == {x \in Values[v] : Problems([Full EXCEPT ![v] = x]) # {}}
Wrong == {[Full EXCEPT ![v] = x] : <<v, x>> \in UNION {{v} \X WrongIn(v) : v \in Variables}}
SomeEnvs == {Full, NoClicks, Least} \cup Wrong

=============================================================================
