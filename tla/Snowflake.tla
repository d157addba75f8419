----------------------------- MODULE Snowflake ------------------------------
(***************************************************************************)
(* internal/snowflake: the ID generators of a fleet of link-service        *)
(* processes.  A process has one Generator, shared by the goroutines of    *)
(* its HTTP handlers (link IDs and click event IDs are drawn from it); a   *)
(* mutex guards it, also while a caller spins for the next millisecond.    *)
(*                                                                         *)
(* The wall clock of each host is the environment's: it moves forward and, *)
(* when ClockMayStepBack, backward as well.  A process may be replaced by  *)
(* a fresh one with the same WORKER_ID when MayRestart: lastMs and         *)
(* sequence live in memory only and are lost.                              *)
(***************************************************************************)
EXTENDS SnowflakeId, Sequences, FiniteSets

CONSTANTS
  Instances,         \* processes
  Callers,           \* goroutines of a process that call Generator.Next
  WorkerOf,          \* the WORKER_ID each process is configured with
  ClockValues,       \* what g.now().UnixMilli() can return
  ClockMayStepBack,
  MayRestart,
  MaxIssued,         \* bound: Next calls a process serves
  Free               \* nobody holds the mutex

ASSUME SnowflakeAssumption ==
  /\ WorkerOf \in [Instances -> WorkerIds]
  /\ ClockValues \subseteq Nat
  /\ ClockMayStepBack \in BOOLEAN
  /\ MayRestart \in BOOLEAN
  /\ MaxIssued \in Nat
  /\ Free \notin Callers

VARIABLES
  clock,     \* clock[i]: the wall clock of the host of i
  lastMs,    \* Generator.lastMs
  sequence,  \* Generator.sequence
  mu,        \* Generator.mu: its holder across steps, or Free
  pc,        \* pc[i][c]: "idle", "lock" (in Lock) or "spin" (in waitNextMillis)
  issued     \* history: issued[i], the IDs i has returned, oldest first

vars == <<clock, lastMs, sequence, mu, pc, issued>>

TypeOK ==
  /\ clock \in [Instances -> ClockValues]
  /\ lastMs \in [Instances -> Nat]
  /\ sequence \in [Instances -> SequenceNumbers]
  /\ mu \in [Instances -> Callers \cup {Free}]
  /\ pc \in [Instances -> [Callers -> {"idle", "lock", "spin"}]]
  /\ issued \in [Instances -> Seq(Int)]

Init ==
  /\ clock \in [Instances -> ClockValues]
  /\ lastMs = [i \in Instances |-> 0]
  /\ sequence = [i \in Instances |-> 0]
  /\ mu = [i \in Instances |-> Free]
  /\ pc = [i \in Instances |-> [c \in Callers |-> "idle"]]
  /\ issued = [i \in Instances |-> <<>>]

GoTo(i, c, label) == pc' = [pc EXCEPT ![i][c] = label]

-----------------------------------------------------------------------------
(***************************************************************************)
(* Generator.Next.  Once the mutex is taken nothing but the clock can      *)
(* change under the caller, so taking it and reading the clock is one step.*)
(***************************************************************************)

\* Enter Next and queue at the mutex.
Call(i, c) ==
  /\ pc[i][c] = "idle"
  /\ Len(issued[i]) + Cardinality({d \in Callers : pc[i][d] # "idle"}) < MaxIssued
  /\ GoTo(i, c, "lock")
  /\ UNCHANGED <<clock, lastMs, sequence, mu, issued>>

CanEnter(i, c) == pc[i][c] = "lock" /\ mu[i] = Free

\* Store the new lastMs and sequence, build the ID and return it.
Issue(i, c, ms, seq) ==
  /\ lastMs' = [lastMs EXCEPT ![i] = ms]
  /\ sequence' = [sequence EXCEPT ![i] = seq]
  /\ issued' = [issued EXCEPT ![i] = Append(@, MakeId(ms, WorkerOf[i], seq))]
  /\ mu' = [mu EXCEPT ![i] = Free]
  /\ GoTo(i, c, "idle")
  /\ UNCHANGED clock

\* Mutant: the error path forgets the mutex.
RefuseWithoutUnlock(i, c) ==
  /\ CanEnter(i, c)
  /\ clock[i] < lastMs[i]
  /\ mu' = [mu EXCEPT ![i] = c]
  /\ GoTo(i, c, "idle")
  /\ UNCHANGED <<clock, lastMs, sequence, issued>>

\* The clock went back behind the last ID: return an error.
RefuseId(i, c) ==
  /\ CanEnter(i, c)
  /\ clock[i] < lastMs[i]
  /\ GoTo(i, c, "idle")
  /\ UNCHANGED <<clock, lastMs, sequence, mu, issued>>

\* Mutant: the sequence is not masked.
UnmaskedSequence(i) == sequence[i] + 1

NextSequence(i) == (sequence[i] + 1) % SequenceCap

\* Mutant: the sequence is not stepped within a millisecond.
RepeatInSameMs(i, c) ==
  /\ CanEnter(i, c)
  /\ clock[i] = lastMs[i]
  /\ NextSequence(i) # 0
  /\ Issue(i, c, clock[i], sequence[i])

\* Same millisecond, sequence numbers left.
NextInSameMs(i, c) ==
  /\ CanEnter(i, c)
  /\ clock[i] = lastMs[i]
  /\ NextSequence(i) # 0
  /\ Issue(i, c, clock[i], NextSequence(i))

\* Same millisecond, sequence used up: wait for the next one, mutex held.
ExhaustMs(i, c) ==
  /\ CanEnter(i, c)
  /\ clock[i] = lastMs[i]
  /\ NextSequence(i) = 0
  /\ sequence' = [sequence EXCEPT ![i] = 0]
  /\ mu' = [mu EXCEPT ![i] = c]
  /\ GoTo(i, c, "spin")
  /\ UNCHANGED <<clock, lastMs, issued>>

\* Mutant: a clock that went back counts as a new millisecond.
NextInOtherMs(i, c) ==
  /\ CanEnter(i, c)
  /\ clock[i] # lastMs[i]
  /\ Issue(i, c, clock[i], 0)

\* A new millisecond: start its sequence.
NextInNewMs(i, c) ==
  /\ CanEnter(i, c)
  /\ clock[i] > lastMs[i]
  /\ Issue(i, c, clock[i], 0)

\* Mutant: the spin ends one millisecond early.
WaitSameMillis(i, c) ==
  /\ pc[i][c] = "spin"
  /\ clock[i] >= lastMs[i]
  /\ Issue(i, c, clock[i], sequence[i])

\* The spin reads a clock past lastMs; a read that does not is a stutter.
WaitNextMillis(i, c) ==
  /\ pc[i][c] = "spin"
  /\ clock[i] > lastMs[i]
  /\ Issue(i, c, clock[i], sequence[i])

Serve(i, c) ==
  \/ RefuseId(i, c)
  \/ NextInSameMs(i, c)
  \/ ExhaustMs(i, c)
  \/ NextInNewMs(i, c)

-----------------------------------------------------------------------------
(***************************************************************************)
(* The environment.                                                        *)
(***************************************************************************)

Tick(i) == \E t \in ClockValues :
  /\ t > clock[i] \/ (ClockMayStepBack /\ t < clock[i])
  /\ clock' = [clock EXCEPT ![i] = t]
  /\ UNCHANGED <<lastMs, sequence, mu, pc, issued>>

\* A process dies and New makes the generator of its successor.  Starting up
\* (three connections are dialled and pinged first) takes at least a
\* millisecond of real time; a clock that steps back may hide it.
Restart(i) ==
  /\ MayRestart
  /\ ClockMayStepBack \/ clock[i] > lastMs[i]
  /\ lastMs' = [lastMs EXCEPT ![i] = 0]
  /\ sequence' = [sequence EXCEPT ![i] = 0]
  /\ mu' = [mu EXCEPT ![i] = Free]
  /\ pc' = [pc EXCEPT ![i] = [c \in Callers |-> "idle"]]
  /\ UNCHANGED <<clock, issued>>

Next == \E i \in Instances :
  \/ Tick(i)
  \/ Restart(i)
  \/ \E c \in Callers : Call(i, c) \/ Serve(i, c) \/ WaitNextMillis(i, c)

Spec == Init /\ [][Next]_vars

(***************************************************************************)
(* sync.Mutex hands a starving waiter the lock, so a caller that finds it  *)
(* free again and again gets it (SF); the spin reads the clock without     *)
(* pause, so it sees a clock that is ahead again and again (SF).           *)
(***************************************************************************)
FairSpec ==
  /\ Spec
  /\ \A i \in Instances, c \in Callers :
       SF_vars(Serve(i, c)) /\ SF_vars(WaitNextMillis(i, c))

-----------------------------------------------------------------------------
(***************************************************************************)
(* Properties.                                                             *)
(***************************************************************************)

\* The IDs a process returns grow in the order it returns them, across
\* exhausted milliseconds, refused calls and replaced processes
\* (snowflake.go: Next and waitNextMillis).
IdsGrow == \A i \in Instances : \A k, l \in 1 .. Len(issued[i]) :
  k < l => issued[i][k] < issued[i][l]

\* No two Next calls of the fleet return the same ID, although the
\* processes share nothing but the rule that WORKER_IDs differ
\* (snowflake.go: the package promise).
IdsUnique == \A i, j \in Instances :
  \A k \in 1 .. Len(issued[i]), l \in 1 .. Len(issued[j]) :
    issued[i][k] = issued[j][l] => i = j /\ k = l

\* An ID never uses the sign bit (snowflake.go: the package layout), so that
\* shortcode.Encode has digits to write.
IdsPositive == \A i \in Instances : \A k \in 1 .. Len(issued[i]) : issued[i][k] > 0

\* Decompose recovers from an ID the process that drew it and a time that
\* process's clock has shown (snowflake.go: the shifts and masks agree).
IdsNameTheirOrigin == \A i \in Instances : \A k \in 1 .. Len(issued[i]) :
  LET parts == Decompose(issued[i][k])
  IN  /\ parts.WorkerID = WorkerOf[i]
      /\ parts.TimestampMs \in ClockValues
      /\ parts.TimestampMs <= clock[i] \/ ClockMayStepBack

\* A caller of Next gets an answer, an ID or an error, as long as the clock
\* of its host gets ahead of the last ID again and again: the mutex is given
\* back on every path, and the spin ends (snowflake.go: Next, waitNextMillis).
EveryCallReturns ==
  (\A i \in Instances : []<>(clock[i] > lastMs[i])) =>
    \A i \in Instances, c \in Callers : (pc[i][c] # "idle") ~> (pc[i][c] = "idle")

PossibleIds == {MakeId(ms, w, s) : ms \in ClockValues, w \in WorkerIds, s \in SequenceNumbers}

Source == INSTANCE IdSource WITH Ids <- PossibleIds

\* The generators implement the promise their users rely on: every ID drawn
\* is new to the fleet and greater than all the process has drawn before.
ImplementsIdSource == Source!Spec

-----------------------------------------------------------------------------
(***************************************************************************)
(* Why IdsGrow and IdsUnique hold: the inductive invariant.                *)
(***************************************************************************)

\* The mutex is held across steps by a spinning caller only, and the spin
\* starts with the sequence reset (snowflake.go: Next).
SpinnerHoldsMutex == \A i \in Instances :
  /\ \A c \in Callers : pc[i][c] = "spin" <=> mu[i] = c
  /\ mu[i] # Free => sequence[i] = 0 /\ lastMs[i] # 0

\* lastMs is a time the clock has shown; it is behind a clock that never
\* steps back, and it is unset only while nothing can lie ahead of the clock.
LastMsShown == \A i \in Instances :
  /\ lastMs[i] \in ClockValues \cup {0}
  /\ ~ClockMayStepBack => lastMs[i] <= clock[i]
  /\ ClockMayStepBack /\ lastMs[i] = 0 => issued[i] = <<>>

\* The IDs of a process carry its worker number and a time of its clock.
IdsMade == \A i \in Instances : \A k \in 1 .. Len(issued[i]) :
  \E ms \in ClockValues, s \in SequenceNumbers : issued[i][k] = MakeId(ms, WorkerOf[i], s)

\* lastMs and sequence are ahead of every ID the process has returned,
\* including those of the process it replaced, so the next ID will be too.
StateAhead == \A i \in Instances : \A k \in 1 .. Len(issued[i]) :
  /\ lastMs[i] = 0 => issued[i][k] < Shift(clock[i])
  /\ lastMs[i] # 0 /\ mu[i] = Free =>
       issued[i][k] <= MakeId(lastMs[i], WorkerOf[i], sequence[i])
  /\ mu[i] # Free => issued[i][k] < Shift(lastMs[i] + 1)

IInv == TypeOK /\ SpinnerHoldsMutex /\ LastMsShown /\ IdsMade /\ StateAhead /\ IdsGrow

=============================================================================
