---------------------------- MODULE SnowflakeId ----------------------------
(***************************************************************************)
(* The bit layout of internal/snowflake: an ID is an int64 made of a       *)
(* timestamp in milliseconds since a custom epoch, a worker number and a   *)
(* sequence number within the millisecond.  Bit fields are written as the  *)
(* number of values they hold, so a left shift is a product, an arithmetic *)
(* right shift a floored quotient and a mask a remainder.                  *)
(***************************************************************************)
EXTENDS Integers

CONSTANTS
  Epoch,        \* 2024-01-01T00:00:00Z in Unix milliseconds
  TimeCap,      \* 2^41 in the code: the milliseconds the time field can hold
  WorkerCap,    \* 2^10 in the code: maxWorkerID + 1
  SequenceCap   \* 2^12 in the code: maxSequence + 1

ASSUME LayoutAssumption ==
  /\ Epoch \in Nat \ {0}
  /\ TimeCap \in Nat \ {0}
  /\ WorkerCap \in Nat \ {0}
  /\ SequenceCap \in Nat \ {0}

WorkerIds == 0 .. WorkerCap - 1
SequenceNumbers == 0 .. SequenceCap - 1

\* 1 << timestampShift
MsUnit == WorkerCap * SequenceCap

\* x as a signed word of 1 + 41 + 10 + 12 bits.
Int64(x) == LET half == TimeCap * MsUnit
            IN  ((x + half) % (2 * half)) - half

\* Mutant: the timestamp is shifted one bit too far, into the sign.
MakeIdShiftedTooFar(ms, worker, seq) ==
  Int64((ms - Epoch) * 2 * MsUnit) + worker * SequenceCap + seq

\* The operands of the code's `|` share no bit, so it is a sum; only the
\* shifted timestamp can leave the word.
MakeId(ms, worker, seq) ==
  Int64((ms - Epoch) * MsUnit) + worker * SequenceCap + seq

\* Mutant: the worker number is not masked.
DecomposeUnmasked(id) ==
  [TimestampMs |-> (id \div MsUnit) + Epoch,
   WorkerID    |-> id \div SequenceCap,
   Sequence    |-> id % SequenceCap]

Decompose(id) ==
  [TimestampMs |-> (id \div MsUnit) + Epoch,
   WorkerID    |-> (id \div SequenceCap) % WorkerCap,
   Sequence    |-> id % SequenceCap]

\* The milliseconds the time field can hold without touching the sign bit.
FieldTimes == Epoch .. Epoch + TimeCap - 1

\* The first ID of a millisecond.
Shift(ms) == (ms - Epoch) * MsUnit

=============================================================================
