------------------------------- MODULE Process -------------------------------
(***************************************************************************)
(* A process from its start to its end: Startup, and then ClickDelivery.   *)
(* Signals are caught from the first line of run to its last, so one that  *)
(* arrives early ends the pings, and one that arrives late changes nothing.*)
(***************************************************************************)
EXTENDS ClickDelivery, Startup

CONSTANT Envs  \* the environments a process may be started in

ASSUME ProcessAssumption ==
  /\ MaxWorkerID \in Nat
  /\ \A e \in Envs, v \in Variables : e[v] \in Values[v]

processVars == <<vars, startVars>>

ProcessInit == Init /\ Begin(Envs)

StartStep == Starts /\ UNCHANGED vars

\* SIGINT or SIGTERM.
SignalArrives ==
  /\ step # "exited"
  /\ Running /\ ~ctxDone
  /\ ctxDone' = TRUE
  /\ UNCHANGED <<env, step, open, deferred, vars>>

\* A step of the running service.  Redirect builds a click only if there is a
\* builder and a publisher.
InService(action) ==
  /\ step = "serving"
  /\ action
  /\ ~ClicksOn => \A r \in Clicks : handler[r] = "build" => handler'[r] \in {"build", "gone"}
  /\ UNCHANGED startVars

SkipClick(r) ==
  /\ step = "serving" /\ ~ClicksOn
  /\ Running
  /\ handler[r] = "build"
  /\ Goes(r, "clickless")
  /\ UNCHANGED <<startVars, RunVars, ClickVars>>

\* The select of run finds its context done.
SelectSignal == ctxDone /\ InService(Signal)

ProcessNext ==
  \/ StartStep \/ SignalArrives \/ SelectSignal
  \/ InService(Work)
  \/ \E r \in Clicks : SkipClick(r)

ProcessSpec == ProcessInit /\ [][ProcessNext]_processVars

\* As in ClickDelivery; a start goes on by itself but for the pings, which have a
\* timeout.
FairProcessSpec ==
  /\ ProcessSpec
  /\ WF_processVars(Proceeds /\ UNCHANGED vars)
  /\ WF_processVars(SelectSignal)
  /\ \A r \in Clicks : WF_processVars(InService(Handle(r)) \/ SkipClick(r))
  /\ \A p \in Partitions : SF_processVars(InService(Deliver(p)))
  /\ WF_processVars(InService(Stop))

-----------------------------------------------------------------------------
(***************************************************************************)
(* Properties.                                                             *)
(***************************************************************************)
\* A signal ends the process, whether it arrives while it starts, serves, stops
\* for another reason or has begun to stop, as long as Postgres answers: every
\* wait on the way has a deadline (main.go: run).
SignalEndsProcess ==
  PostgresAnswers => (ctxDone ~> (main = "gone" \/ step = "exited"))

\* However it starts, serves and stops, a process keeps the contract of its
\* producer: at most once, in the order of each link, no loss without a line in the
\* log, nothing after its end (producer.go: the package comment and Publish).
Promise == INSTANCE ClickStream WITH
  LinkOf <- CodeOf, taken <- published, pending <- Buffered, read <- Delivered, lost <- reported,
  end <- IF Running THEN "open" ELSE IF why \in {"deadline", "kill"} THEN "forced" ELSE "clean"
ImplementsClickStream == Promise!Spec

-----------------------------------------------------------------------------
(***************************************************************************)
(* Why the invariants hold.                                                *)
(***************************************************************************)
\* A click is published once, and its handler is done then (handlers.go: Redirect).
PublishedOnce ==
  /\ \A r \in Clicks : r \in Published <=> handler[r] = "clicked"
  /\ \A m, n \in DOMAIN published : published[m] = published[n] => m = n

Precedes(x, y) ==
  \A m, n \in DOMAIN published : published[m] = x /\ published[n] = y => m < n

\* What a partition and its part of the buffer hold was published for it, in this
\* order (producer.go: Publish).
QueuesInOrder == \A p \in Partitions :
  /\ \A k \in DOMAIN log[p] : log[p][k] \in Published /\ Partition(log[p][k]) = p
  /\ \A k \in DOMAIN buffer[p] : buffer[p][k] \in Published /\ Partition(buffer[p][k]) = p
  /\ \A k, l \in DOMAIN log[p] : k < l => Precedes(log[p][k], log[p][l])
  /\ \A k \in DOMAIN log[p], l \in DOMAIN buffer[p] : Precedes(log[p][k], buffer[p][l])
  /\ \A k, l \in DOMAIN buffer[p] : k < l => Precedes(buffer[p][k], buffer[p][l])

\* Which end goes with which phase, and who is left in it (main.go: run).
PhasesAgree ==
  /\ main = "serve" => why = "none"
  /\ why = "deadline" => main \in {"unwind", "gone"}
  /\ why = "kill" => main = "gone"
  /\ main = "gone" \/ ProducerClosed => \A p \in Partitions : buffer[p] = <<>>
  /\ \A r \in Clicks : handler[r] = "gone" => main = "gone"

\* A click that is given up has had its turn (handlers.go: Redirect).
LostOnce == \A r \in reported : handler[r] \in {"clicked", "clickless"}

\* The steps of a start whose resources are open at step s.
Done(s) ==
  CASE s \in {"load", "postgres"} -> {}
    [] s = "redis" -> {"postgres"}
    [] s \in {"snowflake", "kafka"} -> {"postgres", "redis"}
    [] s = "geoip" -> Deps
    [] s = "auth" -> Deps \cup {"geoip"}
    [] OTHER -> Resources

\* A start has opened what its settings want of the steps behind it, and has
\* deferred what closes it (main.go: run).
StartsInOrder ==
  /\ step \notin {"load", "failing", "exited"} =>
       /\ Problems(env) = {}
       /\ open = Wanted \cap Done(step)
       /\ step \in {"kafka", "geoip"} => ClicksOn
  /\ step = "load" => open = {}
  /\ open \subseteq deferred \cup {"kafka"}

IInv ==
  /\ TypeOK /\ StartTypeOK
  /\ PublishedOnce /\ QueuesInOrder /\ PhasesAgree
  /\ ClicksAccounted /\ LostOnce /\ StopIsGraceful
  /\ StartsInOrder /\ FailedStartLeavesNothing

=============================================================================
