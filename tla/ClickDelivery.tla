---------------------------- MODULE ClickDelivery ----------------------------
(***************************************************************************)
(* The way of a click from the redirect handler to Kafka, and how the      *)
(* process stops: httpapi.Redirect, clicks.Builder, clicks.Producer and    *)
(* the end of run in cmd/link/main.go, in a process that publishes clicks. *)
(*                                                                         *)
(* The producer is franz-go's, as the code configures and uses it: Produce *)
(* appends to an in-memory buffer and blocks while that is full, a         *)
(* background goroutine delivers each partition in order and retries       *)
(* without limit, Flush waits for the buffer to drain, Close fails what is *)
(* left and calls back for each record.  A connection of the pool is held  *)
(* by the query that runs on it; the query has no deadline, and closing    *)
(* the pool waits for it.  net/http sends a response this small when its   *)
(* handler returns.                                                        *)
(***************************************************************************)
EXTENDS Integers, FiniteSets, Sequences, SequencesExt

CONSTANTS
  Clicks,        \* requests GET /{code}; each may lead to one click event
  CodeOf,        \* the short code each of them asks for
  Codes,
  Partitions,
  PartitionOf,   \* Kafka's partitioner: a partition for each record key
  MaxBuffered,   \* kgo.MaxBufferedRecords, its default
  MaxConns,      \* connections of the Postgres pool
  MayCrash       \* the process may be killed

ASSUME ClickDeliveryAssumption ==
  /\ CodeOf \in [Clicks -> Codes]
  /\ PartitionOf \in [Codes -> Partitions]
  /\ MaxBuffered \in Nat \ {0}
  /\ MaxConns \in Nat \ {0}
  /\ MayCrash \in BOOLEAN

VARIABLES
  main,      \* where run is
  why,       \* why it ends
  handler,   \* handler[r]: where the handler of r is
  buffer,    \* buffer[p]: records of partition p the producer holds
  kafkaUp,   \* the brokers answer
  log,       \* log[p]: the partition as its consumers read it
  reported,  \* clicks whose loss has been written to the service's log
  published  \* history: clicks in the order Produce accepted them

vars == <<main, why, handler, buffer, kafkaUp, log, reported, published>>

\* run: in its select; in srv.Shutdown; in flushProducer, in Flush or about to
\* call Close; returning, its deferred calls running; and the process gone.
Phases == {"serve", "shutdown", "flush", "close", "unwind", "gone"}

\* A signal, an error of the server, a Shutdown that ran into its deadline.
Reasons == {"none", "signal", "error", "deadline", "kill"}

\* A handler: not begun; at the cache; waiting for a connection; in its query;
\* redirect written, in Build; in Publish; returned, its response sent, with a
\* click handed over or without; or gone with its process.
Active == {"resolve", "acquire", "query", "build", "publish"}

TypeOK ==
  /\ main \in Phases /\ why \in Reasons
  /\ handler \in [Clicks -> {"none", "clicked", "clickless", "gone"} \cup Active]
  /\ buffer \in [Partitions -> Seq(Clicks)]
  /\ kafkaUp \in BOOLEAN
  /\ log \in [Partitions -> Seq(Clicks)]
  /\ reported \subseteq Clicks
  /\ published \in Seq(Clicks)

Init ==
  /\ main = "serve" /\ why = "none"
  /\ handler = [r \in Clicks |-> "none"]
  /\ buffer = [p \in Partitions |-> <<>>]
  /\ kafkaUp = TRUE                \* NewProducer has pinged the cluster
  /\ log = [p \in Partitions |-> <<>>]
  /\ reported = {}
  /\ published = <<>>

Buffered == UNION {ToSet(buffer[p]) : p \in Partitions}
Delivered == UNION {ToSet(log[p]) : p \in Partitions}
Querying == {r \in Clicks : handler[r] = "query"}

\* Mutant: records without a key are dealt out in turn.
RoundRobin(r) == SetToSeq(Partitions)[1 + (Len(published) % Cardinality(Partitions))]

\* The record key is the short code.
Partition(r) == PartitionOf[CodeOf[r]]

Running == main # "gone"
ProducerClosed == main = "unwind" /\ why # "deadline"

Goes(r, label) == handler' = [handler EXCEPT ![r] = label]
RunVars == <<main, why>>
ClickVars == <<buffer, kafkaUp, log, reported, published>>

-----------------------------------------------------------------------------
(***************************************************************************)
(* The redirect handler.                                                   *)
(***************************************************************************)
\* A request arrives.  Shutdown and a server that has failed end the listener,
\* not the connections it has accepted: Shutdown waits for those that are new or
\* busy; after a failure, or once the deadline has passed, nobody does.
Accept(r) ==
  /\ main \in {"serve", "shutdown"} \/ (Running /\ why \in {"error", "deadline"})
  /\ handler[r] = "none"
  /\ Goes(r, "resolve")
  /\ UNCHANGED <<RunVars, ClickVars>>

\* The cache answers, or does not: a redirect is written, or the table is asked.
AskCache(r) ==
  /\ Running
  /\ handler[r] = "resolve"
  /\ Goes(r, "build") \/ Goes(r, "acquire")
  /\ UNCHANGED <<RunVars, ClickVars>>

\* The pool has a connection.
Acquire(r) ==
  /\ Running /\ main # "unwind"
  /\ handler[r] = "acquire"
  /\ Cardinality(Querying) < MaxConns
  /\ Goes(r, "query")
  /\ UNCHANGED <<RunVars, ClickVars>>

\* The pool has been closed: 500.
PoolRefuses(r) ==
  /\ main = "unwind"
  /\ handler[r] = "acquire"
  /\ Goes(r, "clickless")
  /\ UNCHANGED <<RunVars, ClickVars>>

\* Postgres answers, or the client goes away: 302 is written, or an error.
QueryEnds(r) ==
  /\ Running
  /\ handler[r] \in {"acquire", "query"}
  /\ (handler[r] = "query" /\ Goes(r, "build")) \/ Goes(r, "clickless")
  /\ UNCHANGED <<RunVars, ClickVars>>

\* Mutant: Redirect goes on when it has logged the error.
BuildGoesOn(r) ==
  /\ Running
  /\ handler[r] = "build"
  /\ Goes(r, "publish")
  /\ reported' = reported \cup {r} \/ UNCHANGED reported
  /\ UNCHANGED <<RunVars, buffer, kafkaUp, log, published>>

\* The generator may refuse an event ID: that is logged, the click is lost.
Build(r) ==
  /\ Running
  /\ handler[r] = "build"
  /\ \/ Goes(r, "publish") /\ UNCHANGED reported
     \/ Goes(r, "clickless") /\ reported' = reported \cup {r}
  /\ UNCHANGED <<RunVars, buffer, kafkaUp, log, published>>

HasRoom == Cardinality(Buffered) < MaxBuffered

\* Produce returns once the buffer has room; then the handler returns.
Publish(r) ==
  /\ Running /\ ~ProducerClosed
  /\ handler[r] = "publish"
  /\ HasRoom
  /\ buffer' = [buffer EXCEPT ![Partition(r)] = Append(@, r)]
  /\ published' = Append(published, r)
  /\ Goes(r, "clicked")
  /\ UNCHANGED <<RunVars, kafkaUp, log, reported>>

\* Produce on a closed client: the callback may or may not come.
PublishTooLate(r) ==
  /\ ProducerClosed
  /\ handler[r] = "publish"
  /\ Goes(r, "clickless")
  /\ reported' = reported \cup {r} \/ UNCHANGED reported
  /\ UNCHANGED <<RunVars, buffer, kafkaUp, log, published>>

-----------------------------------------------------------------------------
(***************************************************************************)
(* The producer's background goroutine and the brokers.                    *)
(***************************************************************************)
\* Mutant: what is buffered for a partition becomes one record.
DeliverBatch(p) ==
  /\ Running /\ kafkaUp
  /\ buffer[p] # <<>>
  /\ log' = [log EXCEPT ![p] = Append(@, buffer[p])]
  /\ buffer' = [buffer EXCEPT ![p] = <<>>]
  /\ UNCHANGED <<RunVars, handler, kafkaUp, reported, published>>

\* The next record of a partition is acknowledged and in the log, once: the
\* producer is idempotent.
Deliver(p) ==
  /\ Running /\ kafkaUp
  /\ buffer[p] # <<>>
  /\ log' = [log EXCEPT ![p] = Append(@, Head(buffer[p]))]
  /\ buffer' = [buffer EXCEPT ![p] = Tail(@)]
  /\ UNCHANGED <<RunVars, handler, kafkaUp, reported, published>>

\* The brokers refuse a record for good; the callback of Publish logs it.
Refused(p) ==
  /\ Running /\ kafkaUp
  /\ buffer[p] # <<>>
  /\ reported' = reported \cup {Head(buffer[p])}
  /\ buffer' = [buffer EXCEPT ![p] = Tail(@)]
  /\ UNCHANGED <<RunVars, handler, kafkaUp, log, published>>

KafkaChanges ==
  /\ Running
  /\ kafkaUp' = ~kafkaUp
  /\ UNCHANGED <<RunVars, handler, buffer, log, reported, published>>

-----------------------------------------------------------------------------
(***************************************************************************)
(* How the process stops.                                                  *)
(***************************************************************************)
NoneActive == \A r \in Clicks : handler[r] \notin Active

Proceed(phase, reason) ==
  /\ main' = phase
  /\ why' = reason
  /\ UNCHANGED handler

\* Mutant: the buffer is flushed while requests are still served.
SignalFlushesFirst ==
  /\ main = "serve"
  /\ Proceed("flush", "signal")
  /\ UNCHANGED ClickVars

\* SIGINT or SIGTERM: srv.Shutdown closes the listener and idle connections.
Signal ==
  /\ main = "serve"
  /\ Proceed("shutdown", "signal")
  /\ UNCHANGED ClickVars

\* ListenAndServe returns an error.
ServerFails ==
  /\ main = "serve"
  /\ Proceed("flush", "error")
  /\ UNCHANGED ClickVars

\* Mutant: the producer is not flushed.
HandlersFinishNoFlush ==
  /\ main = "shutdown"
  /\ NoneActive
  /\ Proceed("unwind", why)
  /\ UNCHANGED ClickVars

\* Mutant: srv.Close, which waits for nobody.
HandlersCutOff ==
  /\ main = "shutdown"
  /\ Proceed("flush", why)
  /\ UNCHANGED ClickVars

HandlersFinish ==
  /\ main = "shutdown"
  /\ NoneActive
  /\ Proceed("flush", why)
  /\ UNCHANGED ClickVars

\* ShutdownTimeout passes first, also when a connection is new and sends nothing
\* or the last handler ends between two looks: run returns the error.
ShutdownTimesOut ==
  /\ main = "shutdown"
  /\ Proceed("unwind", "deadline")
  /\ UNCHANGED ClickVars

FlushEnds ==
  /\ main = "flush"
  /\ Buffered = {}
  /\ Proceed("close", why)
  /\ UNCHANGED ClickVars

\* Mutant: the flush has no deadline.
FlushWaitsForever == FALSE /\ UNCHANGED vars

FlushTimesOut ==
  /\ main = "flush"
  /\ Buffered # {}
  /\ Proceed("close", why)
  /\ UNCHANGED ClickVars

\* The buffer is given up.  Records that were on their way may have been written
\* all the same, in order, with nobody left to take the acknowledgement.
GiveUpBuffer ==
  /\ buffer' = [p \in Partitions |-> <<>>]
  /\ \E sent \in [Partitions -> 0 .. MaxBuffered] :
       /\ \A p \in Partitions : sent[p] <= Len(buffer[p])
       /\ log' = [p \in Partitions |-> log[p] \o SubSeq(buffer[p], 1, sent[p])]

\* Close fails what the deadline, or a handler since the flush, left in the
\* buffer; the callbacks log it, and run returns.
Close ==
  /\ main = "close"
  /\ reported' = reported \cup Buffered
  /\ GiveUpBuffer
  /\ Proceed("unwind", why)
  /\ UNCHANGED <<kafkaUp, published>>

\* The process is gone, with its handlers and its buffer.
Vanish(reason) ==
  /\ main' = "gone"
  /\ why' = reason
  /\ handler' = [r \in Clicks |-> IF handler[r] \in Active THEN "gone" ELSE handler[r]]
  /\ GiveUpBuffer
  /\ UNCHANGED <<kafkaUp, reported, published>>

\* The deferred calls close the cache and the pool, which waits for the queries
\* that run; main returns.
Exit ==
  /\ main = "unwind"
  /\ Querying = {}
  /\ Vanish(why)

Crash ==
  /\ MayCrash
  /\ Running
  /\ Vanish("kill")

Handle(r) == AskCache(r) \/ Acquire(r) \/ PoolRefuses(r) \/ Build(r) \/ Publish(r) \/ PublishTooLate(r)
Stop == HandlersFinish \/ ShutdownTimesOut \/ FlushEnds \/ FlushTimesOut \/ Close \/ Exit

Work ==
  \/ \E r \in Clicks : Accept(r) \/ Handle(r) \/ QueryEnds(r)
  \/ \E p \in Partitions : Deliver(p) \/ Refused(p)
  \/ KafkaChanges \/ ServerFails \/ Stop \/ Crash

Next == Work \/ Signal

Spec == Init /\ [][Next]_vars

(***************************************************************************)
(* A handler goes on by itself but in its query, and a deadline passes     *)
(* whatever others do (WF); brokers that are up again and again get the    *)
(* records, since the producer retries without limit (SF).  Nothing says   *)
(* that Kafka comes back, that Postgres answers, that a signal arrives or  *)
(* that the server fails.                                                  *)
(***************************************************************************)
Fairness ==
  /\ \A r \in Clicks : WF_vars(Handle(r))
  /\ \A p \in Partitions : SF_vars(Deliver(p))
  /\ WF_vars(Stop)

FairSpec == Spec /\ Fairness

-----------------------------------------------------------------------------
(***************************************************************************)
(* Properties.                                                             *)
(***************************************************************************)
Published == ToSet(published)
Accounted == Published \subseteq Delivered \cup Buffered \cup reported

\* A click that the producer took while it was open is in the buffer, in Kafka or
\* in the log of lost clicks, also once the process is gone, unless it was killed
\* or srv.Shutdown ran into its deadline (producer.go: the package contract).
ClicksAccounted == why \notin {"deadline", "kill"} => Accounted

\* What the package comment promises of every stop: a lost click is logged.
LossesAreLogged == why # "kill" => Accounted

\* Consumers read the clicks of one link in the order they were published, each
\* once, whatever was retried, lost or published in between (producer.go:
\* Publish).
LinkClicksInOrder ==
  \A p, q \in Partitions : \A k \in 1 .. Len(log[p]), l \in 1 .. Len(log[q]) :
    LET x == log[p][k]
        y == log[q][l]
        Pos(r) == CHOOSE n \in 1 .. Len(published) : published[n] = r
    IN  CodeOf[x] = CodeOf[y] => p = q /\ (k < l => Pos(x) < Pos(y))

\* From the flush after a signal on, while the pools are closed and once the
\* process has ended with nil, every accepted request has had its answer and no
\* click is still to come (main.go: the order of Shutdown, flushProducer and the
\* deferred calls).
StopIsGraceful ==
  why = "signal" /\ main # "shutdown" => \A r \in Clicks : handler[r] \notin Active \cup {"gone"}

\* Postgres answers every query, or its client goes away.
PostgresAnswers == \A r \in Clicks : []<>(handler[r] # "query")

Responded(r) == handler[r] \in {"clicked", "clickless"}

\* The process has ended without its handlers: it was killed, its server failed or
\* its Shutdown ran into the deadline.
EndedByForce == main = "gone" /\ why \in {"kill", "error", "deadline"}

\* As long as Postgres answers, and Kafka again and again, the response of every
\* redirect is sent although connections and the buffer run out and a signal may
\* stop the process, unless it ends by force (handlers.go: Redirect; main.go: run).
RedirectsAnswered ==
  []<>kafkaUp /\ PostgresAnswers =>
    \A r \in Clicks : (handler[r] \in Active) ~> (Responded(r) \/ EndedByForce)

\* What the package comment of clicks says: a redirect does not wait for Kafka.
RedirectsDoNotWaitForKafka ==
  \A r \in Clicks : (handler[r] = "build") ~> (handler[r] \notin Active)

\* What the comment on graceful shutdown says: after ShutdownTimeout the process
\* stops by force, whatever its handlers do.
StopsByForce == main = "shutdown" ~> main = "gone"

=============================================================================
