-------------------------- MODULE Snowflake_proofs --------------------------
(***************************************************************************)
(* Proofs about Snowflake: type correctness, order and uniqueness of the   *)
(* IDs of a whole fleet, and the refinement of IdSource, for every number  *)
(* of processes and goroutines and every field width.                      *)
(***************************************************************************)
EXTENDS Snowflake, TLAPS

(***************************************************************************)
(* Facts about the bit layout of an ID.                                    *)
(***************************************************************************)
\* A product of naturals grows with its first factor.
LEMMA ProductMonotone ==
  ASSUME NEW a \in Int, NEW b \in Int, NEW u \in Nat, a <= b
  PROVE  a * u <= b * u
<1>1. PICK d \in Nat : b = a + d
  <2>1. b - a \in Nat /\ b = a + (b - a) OBVIOUS
  <2>2. QED BY <2>1
<1>2. d * u >= 0 /\ d * u \in Int OBVIOUS
<1>3. b * u = a * u + d * u BY <1>1
<1>4. QED BY <1>2, <1>3

\* The unit of a millisecond is a positive number.
LEMMA MsUnitType == MsUnit \in Nat \ {0}
  BY LayoutAssumption DEF MsUnit

\* A word that is large enough leaves a timestamp as it is.
LEMMA Int64Small ==
  ASSUME NEW x \in Nat, x < TimeCap * MsUnit
  PROVE  Int64(x) = x
<1> DEFINE half == TimeCap * MsUnit
<1>1. half \in Nat BY LayoutAssumption, MsUnitType
<1> HIDE DEF half
<1>2. \A n, m \in Nat : n < m => n % m = n OBVIOUS
<1>3. x + half \in Nat /\ 2 * half \in Nat /\ x + half < 2 * half
  BY <1>1 DEF half
<1>4. (x + half) % (2 * half) = x + half BY <1>2, <1>3
<1>5. Int64(x) = ((x + half) % (2 * half)) - half BY DEF Int64, half
<1>6. QED BY <1>1, <1>4, <1>5

\* Worker and sequence stay below the unit of a millisecond.
LEMMA LowBits ==
  ASSUME NEW w \in WorkerIds, NEW s \in SequenceNumbers
  PROVE  w * SequenceCap + s \in 0 .. MsUnit - 1
<1> USE LayoutAssumption DEF WorkerIds, SequenceNumbers
<1>1. (w + 1) * SequenceCap <= WorkerCap * SequenceCap
  BY ProductMonotone
<1>2. (w + 1) * SequenceCap = w * SequenceCap + SequenceCap OBVIOUS
<1>3. w * SequenceCap \in Nat OBVIOUS
<1>4. WorkerCap * SequenceCap \in Nat OBVIOUS
<1>5. QED BY <1>1, <1>2, <1>3, <1>4 DEF MsUnit

\* Each millisecond owns one unit of IDs.
LEMMA ShiftMonotone ==
  ASSUME NEW a \in Int, NEW b \in Int, a < b
  PROVE  /\ Shift(a) \in Int
         /\ Shift(b) \in Int
         /\ Shift(a) + MsUnit <= Shift(b)
<1>1. Epoch \in Int /\ MsUnit \in Nat BY LayoutAssumption, MsUnitType
<1>2. (a - Epoch + 1) * MsUnit <= (b - Epoch) * MsUnit
  BY <1>1, ProductMonotone
<1>3. (a - Epoch + 1) * MsUnit = (a - Epoch) * MsUnit + MsUnit BY <1>1
<1>4. (a - Epoch) * MsUnit \in Int /\ (b - Epoch) * MsUnit \in Int BY <1>1
<1>5. QED BY <1>2, <1>3, <1>4 DEF Shift

\* Inside the time field nothing wraps, and an ID lies in the unit of its
\* millisecond.
LEMMA MakeIdValue ==
  ASSUME NEW ms \in FieldTimes, NEW w \in WorkerIds, NEW s \in SequenceNumbers
  PROVE  /\ MakeId(ms, w, s) = Shift(ms) + (w * SequenceCap + s)
         /\ Shift(ms) \in Nat
         /\ w * SequenceCap + s \in 0 .. MsUnit - 1
<1>1. w * SequenceCap + s \in 0 .. MsUnit - 1 BY LowBits
<1>2. Shift(ms) \in Nat /\ Shift(ms) < TimeCap * MsUnit
  <2>1. ms - Epoch \in Nat /\ ms - Epoch + 1 <= TimeCap /\ TimeCap \in Nat
    BY LayoutAssumption DEF FieldTimes
  <2>2. (ms - Epoch + 1) * MsUnit <= TimeCap * MsUnit
    BY <2>1, MsUnitType, ProductMonotone
  <2>3. (ms - Epoch + 1) * MsUnit = (ms - Epoch) * MsUnit + MsUnit
    BY <2>1, MsUnitType
  <2>4. (ms - Epoch) * MsUnit \in Nat /\ TimeCap * MsUnit \in Nat
    BY <2>1, MsUnitType
  <2>5. QED BY <2>2, <2>3, <2>4, MsUnitType DEF Shift
<1>3. Int64(Shift(ms)) = Shift(ms) BY <1>2, Int64Small
<1>4. w \in Int /\ s \in Int /\ w * SequenceCap \in Int
  BY LayoutAssumption DEF WorkerIds, SequenceNumbers
<1>5. MakeId(ms, w, s) = Shift(ms) + w * SequenceCap + s
  BY <1>3 DEF MakeId, Shift
<1>6. QED BY <1>1, <1>2, <1>4, <1>5

\* Two IDs are equal only if all their parts are: the code's shifts leave
\* every field its own bits (snowflake.go: Next).
THEOREM LayoutInjective ==
  ASSUME NEW m1 \in FieldTimes, NEW w1 \in WorkerIds, NEW s1 \in SequenceNumbers,
         NEW m2 \in FieldTimes, NEW w2 \in WorkerIds, NEW s2 \in SequenceNumbers,
         MakeId(m1, w1, s1) = MakeId(m2, w2, s2)
  PROVE  m1 = m2 /\ w1 = w2 /\ s1 = s2
<1> DEFINE l1 == w1 * SequenceCap + s1
           l2 == w2 * SequenceCap + s2
<1>1. /\ MakeId(m1, w1, s1) = Shift(m1) + l1
      /\ MakeId(m2, w2, s2) = Shift(m2) + l2
      /\ l1 \in 0 .. MsUnit - 1 /\ l2 \in 0 .. MsUnit - 1
  BY MakeIdValue
<1>2. MsUnit \in Nat /\ SequenceCap \in Nat BY MsUnitType, LayoutAssumption
<1>eq. Shift(m1) + l1 = Shift(m2) + l2
  BY <1>1
<1>3. m1 \in Int /\ m2 \in Int BY LayoutAssumption DEF FieldTimes
<1>4. m1 = m2
  <2>1. ~(m1 < m2)
    <3>1. m1 < m2 => Shift(m1) + MsUnit <= Shift(m2) /\ Shift(m1) \in Int /\ Shift(m2) \in Int
      BY <1>3, ShiftMonotone
    <3> HIDE DEF l1, l2
    <3>2. QED BY <3>1, <1>eq, <1>1, <1>2
  <2>2. ~(m2 < m1)
    <3>1. m2 < m1 => Shift(m2) + MsUnit <= Shift(m1) /\ Shift(m1) \in Int /\ Shift(m2) \in Int
      BY <1>3, ShiftMonotone
    <3> HIDE DEF l1, l2
    <3>2. QED BY <3>1, <1>eq, <1>1, <1>2
  <2>3. QED BY <2>1, <2>2, <1>3
<1>5. l1 = l2
  <2>1. Shift(m1) \in Nat BY MakeIdValue
  <2> HIDE DEF l1, l2
  <2>2. QED BY <2>1, <1>eq, <1>1, <1>2, <1>4
<1>6. /\ w1 \in Int /\ w2 \in Int /\ s1 \in 0 .. SequenceCap - 1 /\ s2 \in 0 .. SequenceCap - 1
      /\ w1 * SequenceCap \in Int /\ w2 * SequenceCap \in Int
  BY LayoutAssumption DEF WorkerIds, SequenceNumbers
<1>7. w1 = w2
  <2>1. \A a, b \in Int : a < b => a * SequenceCap + SequenceCap <= b * SequenceCap
    <3>1. SUFFICES ASSUME NEW a \in Int, NEW b \in Int, a < b
                   PROVE  a * SequenceCap + SequenceCap <= b * SequenceCap
      OBVIOUS
    <3>2. (a + 1) * SequenceCap <= b * SequenceCap BY <3>1, <1>2, ProductMonotone
    <3>3. (a + 1) * SequenceCap = a * SequenceCap + SequenceCap BY <1>2
    <3>4. QED BY <3>2, <3>3
  <2>2. ~(w1 < w2) BY <2>1, <1>5, <1>6, <1>2
  <2>3. ~(w2 < w1) BY <2>1, <1>5, <1>6, <1>2
  <2>4. QED BY <2>2, <2>3, <1>6
<1>8. s1 = s2 BY <1>5, <1>6, <1>7
<1>9. QED BY <1>4, <1>7, <1>8

\* A field is shifted and masked out of what is above and below it.
LEMMA Quotient ==
  ASSUME NEW q \in Nat, NEW u \in Nat \ {0}, NEW x \in 0 .. u - 1
  PROVE  (q * u + x) \div u = q /\ (q * u + x) % u = x
<1>1. q * u + x \in Nat /\ x \in Nat /\ x < u OBVIOUS
<1>2. \A n \in Nat : n = q * u + x => n \div u = q BY <1>1
<1>3. \A n \in Nat : n = q * u + x => n % u = x BY <1>1
<1>4. QED BY <1>1, <1>2, <1>3

\* Decompose takes an ID apart into what MakeId put together (snowflake.go:
\* Next, Decompose).
THEOREM DecomposeInverts ==
  ASSUME NEW ms \in FieldTimes, NEW w \in WorkerIds, NEW s \in SequenceNumbers
  PROVE  Decompose(MakeId(ms, w, s)) = [TimestampMs |-> ms, WorkerID |-> w, Sequence |-> s]
<1> DEFINE id == MakeId(ms, w, s)
           t == ms - Epoch
<1>1. /\ id = Shift(ms) + (w * SequenceCap + s)
      /\ w * SequenceCap + s \in 0 .. MsUnit - 1
  BY MakeIdValue
<1>2. /\ t \in Nat /\ w \in Nat /\ w \in 0 .. WorkerCap - 1 /\ s \in 0 .. SequenceCap - 1
      /\ SequenceCap \in Nat \ {0} /\ WorkerCap \in Nat \ {0} /\ ms \in Int /\ Epoch \in Int
  BY LayoutAssumption DEF FieldTimes, WorkerIds, SequenceNumbers
<1>3. Shift(ms) = t * MsUnit BY DEF Shift
<1> HIDE DEF t, id
<1>4. id \div MsUnit = t
  <2>1. id = t * MsUnit + (w * SequenceCap + s) BY <1>1, <1>3
  <2>2. QED BY <1>1, <1>2, <2>1, MsUnitType, Quotient
<1>5. id = (t * WorkerCap + w) * SequenceCap + s
  <2>1. t * (WorkerCap * SequenceCap) = (t * WorkerCap) * SequenceCap BY <1>2
  <2>2. (t * WorkerCap + w) * SequenceCap = (t * WorkerCap) * SequenceCap + w * SequenceCap
    BY <1>2
  <2>3. (t * WorkerCap) * SequenceCap \in Int /\ w * SequenceCap \in Int BY <1>2
  <2>4. QED BY <1>1, <1>2, <1>3, <2>1, <2>2, <2>3 DEF MsUnit
<1>6. id \div SequenceCap = t * WorkerCap + w /\ id % SequenceCap = s
  <2>1. t * WorkerCap + w \in Nat BY <1>2
  <2>2. QED BY <1>2, <1>5, <2>1, Quotient
<1>7. (t * WorkerCap + w) % WorkerCap = w BY <1>2, Quotient
<1>8. t + Epoch = ms BY <1>2 DEF t
<1>9. QED BY <1>4, <1>6, <1>7, <1>8 DEF Decompose, id

-----------------------------------------------------------------------------

(***************************************************************************)
(* What the uniqueness of IDs rests on.  None of it is checked by the code *)
(* (main.go only checks that WORKER_ID is in range).                       *)
(***************************************************************************)

\* Clocks show times of the 69 years the time field covers.
ClocksInField == ClockValues \subseteq FieldTimes

\* WORKER_IDs differ.
WorkersDiffer == \A i, j \in Instances : WorkerOf[i] = WorkerOf[j] => i = j

\* A clock that may step back and a process that may be replaced do not meet:
\* lastMs is the only guard against the past, and a new process has none.
RestartsSafe == ~(ClockMayStepBack /\ MayRestart)

-----------------------------------------------------------------------------
\* The sequence number after the current one stays in its field.
LEMMA NextSequenceType ==
  ASSUME NEW i \in Instances, sequence[i] \in SequenceNumbers
  PROVE  NextSequence(i) \in SequenceNumbers
  BY LayoutAssumption DEF NextSequence, SequenceNumbers

\* An ID is an integer, wrapped or not.
LEMMA MakeIdType ==
  ASSUME NEW ms \in Int, NEW w \in WorkerIds, NEW s \in SequenceNumbers
  PROVE  MakeId(ms, w, s) \in Int
<1>1. MsUnit \in Nat \ {0} BY MsUnitType
<1>2. TimeCap * MsUnit \in Nat /\ (ms - Epoch) * MsUnit \in Int
  BY <1>1, LayoutAssumption
<1>3. TimeCap * MsUnit > 0
  BY <1>1, LayoutAssumption
<1>4. Int64((ms - Epoch) * MsUnit) \in Int
  BY <1>2, <1>3 DEF Int64
<1>5. w * SequenceCap \in Int /\ s \in Int
  BY LayoutAssumption DEF WorkerIds, SequenceNumbers
<1>6. QED BY <1>4, <1>5 DEF MakeId

-----------------------------------------------------------------------------
\* Every variable of the generators keeps its type (snowflake.go: Generator).
THEOREM TypeCorrect == Spec => []TypeOK
<1>1. Init => TypeOK
  BY LayoutAssumption DEF Init, TypeOK, SequenceNumbers
<1>2. TypeOK /\ [Next]_vars => TypeOK'
  <2> SUFFICES ASSUME TypeOK, [Next]_vars PROVE TypeOK'
    OBVIOUS
  <2> USE SnowflakeAssumption DEF TypeOK
  <2>1. ASSUME NEW i \in Instances, Tick(i) PROVE TypeOK'
    BY <2>1 DEF Tick
  <2>2. ASSUME NEW i \in Instances, Restart(i) PROVE TypeOK'
    BY <2>2, LayoutAssumption DEF Restart, SequenceNumbers
  <2>3. ASSUME NEW i \in Instances, NEW c \in Callers, Call(i, c) PROVE TypeOK'
    BY <2>3 DEF Call, GoTo
  <2>4. ASSUME NEW i \in Instances, NEW c \in Callers, RefuseId(i, c) PROVE TypeOK'
    BY <2>4 DEF RefuseId, GoTo
  <2>5. ASSUME NEW i \in Instances, NEW c \in Callers, NEW ms \in ClockValues,
               NEW s \in SequenceNumbers, Issue(i, c, ms, s)
        PROVE  TypeOK'
    <3>1. MakeId(ms, WorkerOf[i], s) \in Int BY MakeIdType
    <3>2. issued' \in [Instances -> Seq(Int)] BY <2>5, <3>1 DEF Issue
    <3>3. QED BY <2>5, <3>2 DEF Issue, GoTo
  <2>6. ASSUME NEW i \in Instances, NEW c \in Callers, NextInSameMs(i, c) PROVE TypeOK'
    BY <2>5, <2>6, NextSequenceType DEF NextInSameMs
  <2>7. ASSUME NEW i \in Instances, NEW c \in Callers, ExhaustMs(i, c) PROVE TypeOK'
    BY <2>7, LayoutAssumption DEF ExhaustMs, GoTo, SequenceNumbers
  <2>8. ASSUME NEW i \in Instances, NEW c \in Callers, NextInNewMs(i, c) PROVE TypeOK'
    <3>1. 0 \in SequenceNumbers BY LayoutAssumption DEF SequenceNumbers
    <3>2. QED BY <2>5, <2>8, <3>1 DEF NextInNewMs
  <2>9. ASSUME NEW i \in Instances, NEW c \in Callers, WaitNextMillis(i, c) PROVE TypeOK'
    BY <2>5, <2>9 DEF WaitNextMillis
  <2>10. CASE UNCHANGED vars
    BY <2>10 DEF vars
  <2>11. QED
    BY <2>1, <2>2, <2>3, <2>4, <2>6, <2>7, <2>8, <2>9, <2>10 DEF Next, Serve
<1>3. QED BY <1>1, <1>2, PTL DEF Spec
-----------------------------------------------------------------------------
\* An ID lies between the first of its millisecond and the first of the next.
LEMMA IdInItsMs ==
  ASSUME NEW ms \in FieldTimes, NEW w \in WorkerIds, NEW s \in SequenceNumbers
  PROVE  /\ MakeId(ms, w, s) \in Int
         /\ Shift(ms) \in Int
         /\ Shift(ms + 1) \in Int
         /\ Shift(ms) <= MakeId(ms, w, s)
         /\ MakeId(ms, w, s) < Shift(ms + 1)
<1> DEFINE low == w * SequenceCap + s
<1>1. ms \in Int BY LayoutAssumption DEF FieldTimes
<1>2. /\ MakeId(ms, w, s) = Shift(ms) + low
      /\ Shift(ms) \in Nat
      /\ low \in 0 .. MsUnit - 1
  BY MakeIdValue
<1>3. Shift(ms + 1) \in Int /\ Shift(ms) + MsUnit <= Shift(ms + 1)
  BY <1>1, ShiftMonotone
<1> HIDE DEF low
<1>4. QED BY <1>2, <1>3, MsUnitType

\* Within a millisecond IDs follow the sequence number.
LEMMA IdsFollowSequence ==
  ASSUME NEW ms \in FieldTimes, NEW w \in WorkerIds,
         NEW s \in SequenceNumbers, NEW t \in SequenceNumbers, s < t
  PROVE  MakeId(ms, w, s) < MakeId(ms, w, t)
<1>1. /\ MakeId(ms, w, s) = Shift(ms) + (w * SequenceCap + s)
      /\ MakeId(ms, w, t) = Shift(ms) + (w * SequenceCap + t)
      /\ Shift(ms) \in Nat
  BY MakeIdValue
<1>2. w * SequenceCap \in Int /\ s \in Int /\ t \in Int
  BY LayoutAssumption DEF WorkerIds, SequenceNumbers
<1>3. QED BY <1>1, <1>2

\* A time of the clock is a time of the field, and never the zero that stands
\* for "no ID yet".
LEMMA ClockTime ==
  ASSUME ClocksInField, NEW t \in ClockValues
  PROVE  t \in FieldTimes /\ t \in Int /\ t # 0
  BY LayoutAssumption DEF ClocksInField, FieldTimes

\* Returning an ID above all that were returned keeps the invariant.
LEMMA IssueKeepsInvariant ==
  ASSUME ClocksInField, IInv, TypeOK',
         NEW i \in Instances, NEW c \in Callers, NEW s \in SequenceNumbers,
         Issue(i, c, clock[i], s),
         mu[i] \in {Free, c},
         \A k \in 1 .. Len(issued[i]) : issued[i][k] < MakeId(clock[i], WorkerOf[i], s)
  PROVE  IInv'
<1> DEFINE id == MakeId(clock[i], WorkerOf[i], s)
<1> USE DEF IInv
<1>1. clock[i] \in ClockValues /\ clock[i] \in FieldTimes /\ clock[i] \in Int /\ clock[i] # 0
  BY ClockTime DEF TypeOK
<1>2. WorkerOf[i] \in WorkerIds BY SnowflakeAssumption
<1>3. id \in Int BY <1>1, <1>2, MakeIdType
<1>4. /\ issued' = [issued EXCEPT ![i] = Append(issued[i], id)]
      /\ issued \in [Instances -> Seq(Int)]
  BY DEF Issue, TypeOK
<1> HIDE DEF id
<1>5. /\ Len(issued'[i]) = Len(issued[i]) + 1
      /\ Len(issued[i]) \in Nat
      /\ issued'[i][Len(issued[i]) + 1] = id
      /\ \A k \in 1 .. Len(issued[i]) : issued'[i][k] = issued[i][k] /\ issued[i][k] \in Int
  BY <1>3, <1>4
<1>6. \A j \in Instances : j # i =>
        /\ clock'[j] = clock[j] /\ lastMs'[j] = lastMs[j] /\ sequence'[j] = sequence[j]
        /\ mu'[j] = mu[j] /\ pc'[j] = pc[j] /\ issued'[j] = issued[j]
  BY DEF Issue, GoTo, TypeOK
<1>7. clock'[i] = clock[i] /\ lastMs'[i] = clock[i] /\ sequence'[i] = s /\ mu'[i] = Free
  BY DEF Issue, TypeOK
<1>8. \A k \in 1 .. Len(issued[i]) : issued[i][k] < id
  BY DEF id
<1>9. SpinnerHoldsMutex'
  <2> SUFFICES ASSUME NEW j \in Instances
               PROVE  /\ \A d \in Callers : pc'[j][d] = "spin" <=> mu'[j] = d
                      /\ mu'[j] # Free => sequence'[j] = 0 /\ lastMs'[j] # 0
    BY DEF SpinnerHoldsMutex
  <2>1. CASE j # i BY <1>6, <2>1 DEF SpinnerHoldsMutex
  <2>2. CASE j = i
    <3>1. \A d \in Callers : d # c => pc'[i][d] = pc[i][d] BY DEF Issue, GoTo, TypeOK
    <3>2. pc'[i][c] = "idle" BY DEF Issue, GoTo, TypeOK
    <3>3. \A d \in Callers : d # c => pc[i][d] # "spin"
      BY SnowflakeAssumption DEF SpinnerHoldsMutex
    <3>4. QED BY <1>7, <2>2, <3>1, <3>2, <3>3, SnowflakeAssumption
  <2>3. QED BY <2>1, <2>2
<1>10. LastMsShown'
  <2> SUFFICES ASSUME NEW j \in Instances
               PROVE  /\ lastMs'[j] \in ClockValues \cup {0}
                      /\ ~ClockMayStepBack => lastMs'[j] <= clock'[j]
                      /\ ClockMayStepBack /\ lastMs'[j] = 0 => issued'[j] = <<>>
    BY DEF LastMsShown
  <2>1. CASE j # i BY <1>6, <2>1 DEF LastMsShown
  <2>2. CASE j = i BY <1>1, <1>7, <2>2
  <2>3. QED BY <2>1, <2>2
<1>11. IdsMade'
  <2> SUFFICES ASSUME NEW j \in Instances, NEW k \in 1 .. Len(issued'[j])
               PROVE  \E ms \in ClockValues, t \in SequenceNumbers :
                        issued'[j][k] = MakeId(ms, WorkerOf[j], t)
    BY DEF IdsMade
  <2>1. CASE j # i BY <1>6, <2>1 DEF IdsMade
  <2>2. CASE j = i /\ k = Len(issued[i]) + 1 BY <1>1, <1>5, <2>2 DEF id
  <2>3. CASE j = i /\ k \in 1 .. Len(issued[i]) BY <1>5, <2>3 DEF IdsMade
  <2>4. QED BY <1>5, <2>1, <2>2, <2>3
<1>12. StateAhead'
  <2> SUFFICES ASSUME NEW j \in Instances, NEW k \in 1 .. Len(issued'[j])
               PROVE  /\ lastMs'[j] = 0 => issued'[j][k] < Shift(clock'[j])
                      /\ lastMs'[j] # 0 /\ mu'[j] = Free =>
                           issued'[j][k] <= MakeId(lastMs'[j], WorkerOf[j], sequence'[j])
                      /\ mu'[j] # Free => issued'[j][k] < Shift(lastMs'[j] + 1)
    BY DEF StateAhead
  <2>1. CASE j # i BY <1>6, <2>1 DEF StateAhead
  <2>2. CASE j = i
    <3>1. issued'[i][k] <= id BY <1>3, <1>5, <1>8, <2>2
    <3>2. QED BY <1>1, <1>7, <2>2, <3>1 DEF id
  <2>3. QED BY <2>1, <2>2
<1>13. IdsGrow'
  <2> SUFFICES ASSUME NEW j \in Instances, NEW k \in 1 .. Len(issued'[j]),
                      NEW l \in 1 .. Len(issued'[j]), k < l
               PROVE  issued'[j][k] < issued'[j][l]
    BY DEF IdsGrow
  <2>1. CASE j # i BY <1>6, <2>1 DEF IdsGrow
  <2>2. CASE j = i /\ l = Len(issued[i]) + 1 BY <1>5, <1>8, <2>2
  <2>3. CASE j = i /\ l \in 1 .. Len(issued[i]) BY <1>5, <2>3 DEF IdsGrow
  <2>4. QED BY <1>5, <2>1, <2>2, <2>3
<1>14. QED BY <1>9, <1>10, <1>11, <1>12, <1>13
-----------------------------------------------------------------------------
\* All a process has returned is below the first ID of every millisecond after
\* lastMs, whoever holds the mutex.
LEMMA PastIsBelow ==
  ASSUME ClocksInField, IInv, NEW i \in Instances, NEW t \in ClockValues,
         t > lastMs[i], t >= clock[i],
         NEW k \in 1 .. Len(issued[i])
  PROVE  issued[i][k] < Shift(t)
<1> USE DEF IInv
<1>1. t \in Int /\ clock[i] \in Int /\ clock[i] \in ClockValues /\ lastMs[i] \in Int
      /\ issued[i][k] \in Int
  BY ClockTime DEF TypeOK
<1>2. WorkerOf[i] \in WorkerIds /\ sequence[i] \in SequenceNumbers
  BY SnowflakeAssumption DEF TypeOK
<1>3. CASE lastMs[i] = 0
  <2>1. issued[i][k] < Shift(clock[i]) BY <1>3 DEF StateAhead
  <2>2. clock[i] < t => Shift(clock[i]) + MsUnit <= Shift(t)
    BY <1>1, ShiftMonotone
  <2>3. Shift(clock[i]) \in Int /\ Shift(t) \in Int
    BY <1>1, MsUnitType, LayoutAssumption DEF Shift
  <2>4. CASE clock[i] < t BY <1>1, <2>1, <2>2, <2>3, <2>4, MsUnitType
  <2>5. CASE clock[i] = t BY <2>1, <2>5
  <2>6. QED BY <1>1, <2>4, <2>5
<1>4. CASE lastMs[i] # 0
  <2>1. lastMs[i] \in FieldTimes
    BY <1>4, ClockTime DEF LastMsShown
  <2>2. /\ MakeId(lastMs[i], WorkerOf[i], sequence[i]) \in Int
        /\ Shift(lastMs[i] + 1) \in Int
        /\ MakeId(lastMs[i], WorkerOf[i], sequence[i]) < Shift(lastMs[i] + 1)
    BY <1>2, <2>1, IdInItsMs
  <2>3. issued[i][k] < Shift(lastMs[i] + 1)
    <3>1. CASE mu[i] = Free
      <4>1. issued[i][k] <= MakeId(lastMs[i], WorkerOf[i], sequence[i])
        BY <1>4, <3>1 DEF StateAhead
      <4>2. QED BY <1>1, <2>2, <4>1
    <3>2. CASE mu[i] # Free BY <3>2 DEF StateAhead
    <3>3. QED BY <3>1, <3>2
  <2>4. Shift(lastMs[i] + 1) <= Shift(t)
    <3>1. lastMs[i] + 1 < t => Shift(lastMs[i] + 1) + MsUnit <= Shift(t)
      BY <1>1, ShiftMonotone
    <3>2. Shift(t) \in Int BY <1>1, MsUnitType, LayoutAssumption DEF Shift
    <3>3. CASE lastMs[i] + 1 < t BY <2>2, <3>1, <3>2, <3>3, MsUnitType
    <3>4. CASE lastMs[i] + 1 = t BY <2>2, <3>4
    <3>5. QED BY <1>1, <3>3, <3>4
  <2>5. Shift(t) \in Int BY <1>1, MsUnitType, LayoutAssumption DEF Shift
  <2>6. QED BY <1>1, <2>2, <2>3, <2>4, <2>5
<1>5. QED BY <1>3, <1>4

\* A first ID in a millisecond the clock shows and lastMs does not is new.
LEMMA NewMsIdIsAbove ==
  ASSUME ClocksInField, IInv, NEW i \in Instances, clock[i] > lastMs[i],
         NEW s \in SequenceNumbers, NEW k \in 1 .. Len(issued[i])
  PROVE  issued[i][k] < MakeId(clock[i], WorkerOf[i], s)
<1>1. clock[i] \in ClockValues /\ clock[i] \in FieldTimes /\ clock[i] \in Int
  BY ClockTime DEF IInv, TypeOK
<1>2. issued[i][k] < Shift(clock[i]) BY <1>1, PastIsBelow
<1>3. WorkerOf[i] \in WorkerIds BY SnowflakeAssumption
<1>4. /\ Shift(clock[i]) <= MakeId(clock[i], WorkerOf[i], s)
      /\ Shift(clock[i]) \in Int /\ MakeId(clock[i], WorkerOf[i], s) \in Int
  BY <1>1, <1>3, IdInItsMs
<1>5. issued[i][k] \in Int BY DEF IInv, TypeOK
<1>6. QED BY <1>2, <1>4, <1>5

\* A step that leaves what a process knows and has returned as it is keeps the
\* invariant when the clock only moves on, or nothing was returned.
LEMMA QuietStep ==
  ASSUME ClocksInField, IInv, TypeOK',
         UNCHANGED <<lastMs, sequence, mu, issued>>,
         \A j \in Instances, d \in Callers : pc'[j][d] = "spin" <=> pc[j][d] = "spin",
         \A j \in Instances : ClockMayStepBack \/ clock'[j] >= clock[j]
  PROVE  IInv'
<1> USE DEF IInv
<1>1. SpinnerHoldsMutex' BY DEF SpinnerHoldsMutex
<1>2. LastMsShown'
  <2> SUFFICES ASSUME NEW j \in Instances
               PROVE  /\ lastMs'[j] \in ClockValues \cup {0}
                      /\ ~ClockMayStepBack => lastMs'[j] <= clock'[j]
                      /\ ClockMayStepBack /\ lastMs'[j] = 0 => issued'[j] = <<>>
    BY DEF LastMsShown
  <2>1. lastMs[j] \in Int /\ clock[j] \in Int /\ clock'[j] \in Int
    BY ClockTime DEF TypeOK
  <2>2. QED BY <2>1 DEF LastMsShown
<1>3. IdsMade' BY DEF IdsMade
<1>4. StateAhead'
  <2> SUFFICES ASSUME NEW j \in Instances, NEW k \in 1 .. Len(issued[j]), lastMs[j] = 0
               PROVE  issued[j][k] < Shift(clock'[j])
    BY DEF StateAhead
  <2>1. ~ClockMayStepBack BY DEF LastMsShown
  <2>2. clock'[j] \in ClockValues /\ clock'[j] \in Int /\ clock'[j] # 0 /\ clock'[j] \in Nat
    BY ClockTime, SnowflakeAssumption DEF TypeOK
  <2>3. clock'[j] > lastMs[j] /\ clock'[j] >= clock[j] BY <2>1, <2>2
  <2>4. QED BY <2>2, <2>3, PastIsBelow
<1>5. IdsGrow' BY DEF IdsGrow
<1>6. QED BY <1>1, <1>2, <1>3, <1>4, <1>5
-----------------------------------------------------------------------------
\* Nothing is known or returned at the start.
LEMMA InitInvariant == ASSUME ClocksInField, Init PROVE IInv
<1>1. TypeOK BY LayoutAssumption DEF Init, TypeOK, SequenceNumbers
<1>2. \A i \in Instances : issued[i] = <<>> /\ Len(issued[i]) = 0 BY DEF Init
<1>3. SpinnerHoldsMutex BY SnowflakeAssumption DEF Init, SpinnerHoldsMutex
<1>4. LastMsShown
  <2>1. \A i \in Instances : clock[i] \in Nat BY SnowflakeAssumption DEF Init
  <2>2. QED BY <1>2, <2>1 DEF Init, LastMsShown
<1>5. IdsMade /\ StateAhead /\ IdsGrow BY <1>2 DEF IdsMade, StateAhead, IdsGrow
<1>6. QED BY <1>1, <1>3, <1>4, <1>5 DEF IInv

\* Each step of the fleet keeps the invariant.
LEMMA NextInvariant ==
  ASSUME ClocksInField, RestartsSafe, IInv, TypeOK', [Next]_vars
  PROVE  IInv'
<1> USE DEF IInv
<1>t. \A i \in Instances :
        /\ clock[i] \in ClockValues /\ clock[i] \in FieldTimes
        /\ clock[i] \in Int /\ clock[i] # 0
        /\ lastMs[i] \in Nat /\ lastMs[i] \in Int
        /\ sequence[i] \in SequenceNumbers /\ WorkerOf[i] \in WorkerIds
  <2> TAKE i \in Instances
  <2>1. clock[i] \in ClockValues /\ lastMs[i] \in Nat /\ sequence[i] \in SequenceNumbers
    BY DEF TypeOK
  <2>2. WorkerOf[i] \in WorkerIds BY SnowflakeAssumption
  <2>3. clock[i] \in FieldTimes /\ clock[i] \in Int /\ clock[i] # 0
    BY <2>1, ClockTime
  <2>4. QED BY <2>1, <2>2, <2>3
<1>1. ASSUME NEW i \in Instances, Tick(i) PROVE IInv'
  <2>1. \A j \in Instances : ClockMayStepBack \/ clock'[j] >= clock[j]
    <3>1. PICK t \in ClockValues :
            /\ t > clock[i] \/ ClockMayStepBack
            /\ clock' = [clock EXCEPT ![i] = t]
      BY <1>1 DEF Tick
    <3>2. t \in Int BY ClockTime
    <3>3. clock'[i] = t /\ \A j \in Instances : j # i => clock'[j] = clock[j]
      BY <3>1 DEF TypeOK
    <3>4. QED BY <1>t, <3>1, <3>2, <3>3
  <2>2. QED BY <1>1, <2>1, QuietStep DEF Tick
<1>2. ASSUME NEW i \in Instances, Restart(i) PROVE IInv'
  <2>1. ~ClockMayStepBack /\ clock[i] > lastMs[i] BY <1>2 DEF Restart, RestartsSafe
  <2>2. \A k \in 1 .. Len(issued[i]) : issued[i][k] < Shift(clock[i])
    BY <1>t, <2>1, PastIsBelow
  <2>3. \A j \in Instances : j # i =>
          /\ lastMs'[j] = lastMs[j] /\ sequence'[j] = sequence[j]
          /\ mu'[j] = mu[j] /\ pc'[j] = pc[j]
    BY <1>2 DEF Restart, TypeOK
  <2>4. /\ lastMs'[i] = 0 /\ mu'[i] = Free
        /\ \A c \in Callers : pc'[i][c] = "idle"
        /\ UNCHANGED <<clock, issued>>
    BY <1>2 DEF Restart, TypeOK
  <2>5. SpinnerHoldsMutex'
    BY <2>3, <2>4, SnowflakeAssumption DEF SpinnerHoldsMutex
  <2>6. LastMsShown' BY <1>t, <2>1, <2>3, <2>4 DEF LastMsShown
  <2>7. IdsMade' /\ IdsGrow' BY <2>4 DEF IdsMade, IdsGrow
  <2>8. StateAhead' BY <2>2, <2>3, <2>4 DEF StateAhead
  <2>9. QED BY <2>5, <2>6, <2>7, <2>8
<1>3. ASSUME NEW i \in Instances, NEW c \in Callers, Call(i, c) PROVE IInv'
  <2>1. \A j \in Instances, d \in Callers : pc'[j][d] = "spin" <=> pc[j][d] = "spin"
    BY <1>3 DEF Call, GoTo, TypeOK
  <2>2. QED BY <1>3, <1>t, <2>1, QuietStep DEF Call
<1>4. ASSUME NEW i \in Instances, NEW c \in Callers, RefuseId(i, c) PROVE IInv'
  <2>1. \A j \in Instances, d \in Callers : pc'[j][d] = "spin" <=> pc[j][d] = "spin"
    BY <1>4 DEF RefuseId, CanEnter, GoTo, TypeOK
  <2>2. QED BY <1>4, <1>t, <2>1, QuietStep DEF RefuseId
<1>5. ASSUME NEW i \in Instances, NEW c \in Callers, NextInSameMs(i, c) PROVE IInv'
  <2>1. NextSequence(i) \in SequenceNumbers BY <1>t, NextSequenceType
  <2>2. sequence[i] < NextSequence(i)
    <3>1. sequence[i] + 1 \in 0 .. SequenceCap
      BY <1>t, LayoutAssumption DEF SequenceNumbers
    <3>2. sequence[i] + 1 # SequenceCap
      BY <1>5, LayoutAssumption DEF NextInSameMs, NextSequence
    <3>3. NextSequence(i) = sequence[i] + 1
      BY <3>1, <3>2, LayoutAssumption DEF NextSequence
    <3>4. QED BY <1>t, <3>3 DEF SequenceNumbers
  <2>3. mu[i] = Free /\ clock[i] = lastMs[i] /\ lastMs[i] # 0
    BY <1>5, <1>t DEF NextInSameMs, CanEnter
  <2>4. ASSUME NEW k \in 1 .. Len(issued[i])
        PROVE  issued[i][k] < MakeId(clock[i], WorkerOf[i], NextSequence(i))
    <3>1. issued[i][k] <= MakeId(clock[i], WorkerOf[i], sequence[i])
      BY <2>3 DEF StateAhead
    <3>2. MakeId(clock[i], WorkerOf[i], sequence[i])
            < MakeId(clock[i], WorkerOf[i], NextSequence(i))
      BY <1>t, <2>1, <2>2, IdsFollowSequence
    <3>3. /\ MakeId(clock[i], WorkerOf[i], sequence[i]) \in Int
          /\ MakeId(clock[i], WorkerOf[i], NextSequence(i)) \in Int
          /\ issued[i][k] \in Int
      BY <1>t, <2>1, MakeIdType DEF TypeOK
    <3>4. QED BY <3>1, <3>2, <3>3
  <2>5. QED BY <1>5, <2>1, <2>3, <2>4, IssueKeepsInvariant DEF NextInSameMs
<1>6. ASSUME NEW i \in Instances, NEW c \in Callers, ExhaustMs(i, c) PROVE IInv'
  <2>1. mu[i] = Free /\ clock[i] = lastMs[i] /\ lastMs[i] # 0
    BY <1>6, <1>t DEF ExhaustMs, CanEnter
  <2>2. ASSUME NEW k \in 1 .. Len(issued[i])
        PROVE  issued[i][k] < Shift(lastMs[i] + 1)
    <3>1. issued[i][k] <= MakeId(lastMs[i], WorkerOf[i], sequence[i])
      BY <2>1 DEF StateAhead
    <3>2. /\ MakeId(lastMs[i], WorkerOf[i], sequence[i]) < Shift(lastMs[i] + 1)
          /\ MakeId(lastMs[i], WorkerOf[i], sequence[i]) \in Int
          /\ Shift(lastMs[i] + 1) \in Int
      BY <1>t, <2>1, IdInItsMs
    <3>3. issued[i][k] \in Int BY DEF TypeOK
    <3>4. QED BY <3>1, <3>2, <3>3
  <2>3. /\ UNCHANGED <<clock, lastMs, issued>>
        /\ sequence'[i] = 0 /\ mu'[i] = c /\ pc'[i][c] = "spin"
        /\ \A d \in Callers : d # c => pc'[i][d] = pc[i][d]
    BY <1>6 DEF ExhaustMs, GoTo, TypeOK
  <2>4. \A j \in Instances : j # i =>
          sequence'[j] = sequence[j] /\ mu'[j] = mu[j] /\ pc'[j] = pc[j]
    BY <1>6 DEF ExhaustMs, GoTo, TypeOK
  <2>5. SpinnerHoldsMutex'
    <3>1. \A d \in Callers : pc[i][d] # "spin"
      BY <2>1, SnowflakeAssumption DEF SpinnerHoldsMutex
    <3>2. QED BY <2>1, <2>3, <2>4, <3>1, SnowflakeAssumption DEF SpinnerHoldsMutex
  <2>6. LastMsShown' BY <2>3 DEF LastMsShown
  <2>7. IdsMade' /\ IdsGrow' BY <2>3 DEF IdsMade, IdsGrow
  <2>8. StateAhead'
    BY <2>1, <2>2, <2>3, <2>4, SnowflakeAssumption DEF StateAhead
  <2>9. QED BY <2>5, <2>6, <2>7, <2>8
<1>7. ASSUME NEW i \in Instances, NEW c \in Callers, NextInNewMs(i, c) PROVE IInv'
  <2>1. mu[i] = Free BY <1>7 DEF NextInNewMs, CanEnter
  <2>2. 0 \in SequenceNumbers BY LayoutAssumption DEF SequenceNumbers
  <2>3. \A k \in 1 .. Len(issued[i]) : issued[i][k] < MakeId(clock[i], WorkerOf[i], 0)
    BY <1>7, <2>2, NewMsIdIsAbove DEF NextInNewMs
  <2>4. QED BY <1>7, <2>1, <2>2, <2>3, IssueKeepsInvariant DEF NextInNewMs
<1>8. ASSUME NEW i \in Instances, NEW c \in Callers, WaitNextMillis(i, c) PROVE IInv'
  <2>1. mu[i] = c BY <1>8 DEF WaitNextMillis, SpinnerHoldsMutex
  <2>2. \A k \in 1 .. Len(issued[i]) :
          issued[i][k] < MakeId(clock[i], WorkerOf[i], sequence[i])
    BY <1>8, <1>t, NewMsIdIsAbove DEF WaitNextMillis
  <2>3. QED BY <1>8, <1>t, <2>1, <2>2, IssueKeepsInvariant DEF WaitNextMillis
<1>9. CASE UNCHANGED vars
  BY <1>9, <1>t, QuietStep DEF vars
<1>10. QED
  BY <1>1, <1>2, <1>3, <1>4, <1>5, <1>6, <1>7, <1>8, <1>9 DEF Next, Serve

\* The state of a generator stays ahead of all it has returned.
LEMMA Inductive == ASSUME ClocksInField, RestartsSafe PROVE Spec => []IInv
<1>1. Init => IInv BY InitInvariant
<1>2. IInv /\ TypeOK' /\ [Next]_vars => IInv' BY NextInvariant
<1>3. QED BY <1>1, <1>2, TypeCorrect, PTL DEF Spec

-----------------------------------------------------------------------------
\* The IDs of a process grow, unless its clock may step back and it may be
\* replaced (snowflake.go: Next).
THEOREM IssuedIdsGrow == ASSUME ClocksInField, RestartsSafe PROVE Spec => []IdsGrow
<1>1. IInv => IdsGrow BY DEF IInv
<1>2. QED BY <1>1, Inductive, PTL

\* No ID is returned twice in the fleet when, besides, WORKER_IDs differ
\* (snowflake.go: the package promise).
THEOREM IssuedIdsUnique ==
  ASSUME ClocksInField, RestartsSafe, WorkersDiffer
  PROVE  Spec => []IdsUnique
<1>1. ASSUME IInv PROVE IdsUnique
  <2> USE DEF IInv
  <2> SUFFICES ASSUME NEW i \in Instances, NEW j \in Instances,
                      NEW k \in 1 .. Len(issued[i]), NEW l \in 1 .. Len(issued[j]),
                      issued[i][k] = issued[j][l]
               PROVE  i = j /\ k = l
    BY DEF IdsUnique
  <2>1. PICK m1 \in ClockValues, s1 \in SequenceNumbers :
          issued[i][k] = MakeId(m1, WorkerOf[i], s1)
    BY <1>1 DEF IdsMade
  <2>2. PICK m2 \in ClockValues, s2 \in SequenceNumbers :
          issued[j][l] = MakeId(m2, WorkerOf[j], s2)
    BY <1>1 DEF IdsMade
  <2>3. m1 \in FieldTimes /\ m2 \in FieldTimes BY ClockTime
  <2>4. WorkerOf[i] \in WorkerIds /\ WorkerOf[j] \in WorkerIds BY SnowflakeAssumption
  <2>5. WorkerOf[i] = WorkerOf[j]
    <3>1. MakeId(m1, WorkerOf[i], s1) = MakeId(m2, WorkerOf[j], s2) BY <2>1, <2>2
    <3>2. QED BY <2>3, <2>4, <3>1, LayoutInjective
  <2>6. i = j BY <2>5 DEF WorkersDiffer
  <2>7. k \in Int /\ l \in Int /\ issued[i][k] \in Int BY <1>1, <2>6 DEF TypeOK
  <2>8. ~(k < l) /\ ~(l < k) BY <1>1, <2>6, <2>7 DEF IdsGrow
  <2>9. QED BY <2>6, <2>7, <2>8
<1>2. QED BY <1>1, Inductive, PTL

\* IDs of clocks that are past the epoch are positive (snowflake.go: the package
\* layout); nothing in the code checks a clock against the epoch.
THEOREM IssuedIdsPositive ==
  ASSUME ClocksInField, RestartsSafe, Epoch \notin ClockValues
  PROVE  Spec => []IdsPositive
<1>1. ASSUME IInv PROVE IdsPositive
  <2> SUFFICES ASSUME NEW i \in Instances, NEW k \in 1 .. Len(issued[i])
               PROVE  issued[i][k] > 0
    BY DEF IdsPositive
  <2>1. PICK ms \in ClockValues, s \in SequenceNumbers : issued[i][k] = MakeId(ms, WorkerOf[i], s)
    BY <1>1 DEF IInv, IdsMade
  <2>2. ms \in FieldTimes /\ ms \in Int /\ Epoch \in Int /\ Epoch < ms
    BY ClockTime, LayoutAssumption DEF FieldTimes
  <2>3. WorkerOf[i] \in WorkerIds BY SnowflakeAssumption
  <2>4. Shift(Epoch) + MsUnit <= Shift(ms) /\ Shift(ms) \in Int BY <2>2, ShiftMonotone
  <2>5. Shift(Epoch) = 0 BY <2>2, MsUnitType DEF Shift
  <2>6. /\ Shift(ms) <= MakeId(ms, WorkerOf[i], s)
        /\ MakeId(ms, WorkerOf[i], s) \in Int
    BY <2>2, <2>3, IdInItsMs
  <2>7. QED BY <2>1, <2>4, <2>5, <2>6, MsUnitType
<1>2. QED BY <1>1, Inductive, PTL

\* An ID is taken apart into the process that drew it and a time its clock has
\* shown (snowflake.go: Decompose).
THEOREM IssuedIdsNameTheirOrigin ==
  ASSUME ClocksInField, RestartsSafe
  PROVE  Spec => []IdsNameTheirOrigin
<1>1. ASSUME IInv PROVE IdsNameTheirOrigin
  <2> USE DEF IInv
  <2> SUFFICES ASSUME NEW i \in Instances, NEW k \in 1 .. Len(issued[i])
               PROVE  LET parts == Decompose(issued[i][k])
                      IN  /\ parts.WorkerID = WorkerOf[i]
                          /\ parts.TimestampMs \in ClockValues
                          /\ parts.TimestampMs <= clock[i] \/ ClockMayStepBack
    BY DEF IdsNameTheirOrigin
  <2>1. PICK ms \in ClockValues, s \in SequenceNumbers : issued[i][k] = MakeId(ms, WorkerOf[i], s)
    BY <1>1 DEF IdsMade
  <2>2. /\ ms \in FieldTimes /\ ms \in Int /\ WorkerOf[i] \in WorkerIds
        /\ clock[i] \in ClockValues /\ clock[i] \in Int /\ lastMs[i] \in Int
        /\ sequence[i] \in SequenceNumbers
    <3>1. clock[i] \in ClockValues /\ lastMs[i] \in Int /\ sequence[i] \in SequenceNumbers
      BY <1>1 DEF TypeOK
    <3>2. ms \in FieldTimes /\ ms \in Int /\ clock[i] \in Int BY <3>1, ClockTime
    <3>3. WorkerOf[i] \in WorkerIds BY SnowflakeAssumption
    <3>4. QED BY <3>1, <3>2, <3>3
  <2>3. Decompose(issued[i][k]) = [TimestampMs |-> ms, WorkerID |-> WorkerOf[i], Sequence |-> s]
    BY <2>1, <2>2, DecomposeInverts
  <2>4. Shift(ms) <= issued[i][k] /\ issued[i][k] \in Int /\ Shift(ms) \in Int
    <3>1. Shift(ms) \in Nat BY <2>2, MakeIdValue
    <3>2. QED BY <2>1, <2>2, <3>1, IdInItsMs
  <2>5. ASSUME ~ClockMayStepBack PROVE ms <= clock[i]
    <3>1. lastMs[i] <= clock[i] BY <1>1, <2>5 DEF LastMsShown
    <3>2. CASE lastMs[i] = 0
      <4>1. issued[i][k] < Shift(clock[i]) BY <1>1, <3>2 DEF StateAhead
      <4>2. clock[i] < ms => Shift(clock[i]) + MsUnit <= Shift(ms) /\ Shift(clock[i]) \in Int
        BY <2>2, ShiftMonotone
      <4>3. QED BY <2>2, <2>4, <4>1, <4>2, MsUnitType
    <3>3. CASE lastMs[i] # 0
      <4>1. lastMs[i] \in FieldTimes BY <1>1, <3>3, ClockTime DEF LastMsShown
      <4>2. /\ MakeId(lastMs[i], WorkerOf[i], sequence[i]) < Shift(lastMs[i] + 1)
            /\ MakeId(lastMs[i], WorkerOf[i], sequence[i]) \in Int
            /\ Shift(lastMs[i] + 1) \in Int
        BY <2>2, <4>1, IdInItsMs
      <4>3. issued[i][k] < Shift(lastMs[i] + 1)
        <5>1. CASE mu[i] = Free
          <6>1. issued[i][k] <= MakeId(lastMs[i], WorkerOf[i], sequence[i])
            BY <1>1, <3>3, <5>1 DEF StateAhead
          <6>2. QED BY <2>4, <4>2, <6>1
        <5>2. CASE mu[i] # Free BY <1>1, <5>2 DEF StateAhead
        <5>3. QED BY <5>1, <5>2
      <4>4. lastMs[i] + 1 < ms => Shift(lastMs[i] + 1) + MsUnit <= Shift(ms)
        BY <2>2, ShiftMonotone
      <4>5. ~(lastMs[i] + 1 < ms) /\ ms # lastMs[i] + 1
        BY <2>4, <4>2, <4>3, <4>4, MsUnitType
      <4>6. QED BY <2>2, <3>1, <4>5
    <3>4. QED BY <3>2, <3>3
  <2>6. QED BY <2>3, <2>5
<1>2. QED BY <1>1, Inductive, PTL
-----------------------------------------------------------------------------
\* Returning an ID that is new and above the process's others is a draw.
LEMMA IssueIsDraw ==
  ASSUME ClocksInField, IInv, IdsUnique', IdsGrow',
         NEW i \in Instances, NEW c \in Callers, NEW s \in SequenceNumbers,
         Issue(i, c, clock[i], s)
  PROVE  Source!Draw(i)
<1> DEFINE id == MakeId(clock[i], WorkerOf[i], s)
<1> USE DEF IInv
<1>1. clock[i] \in ClockValues /\ clock[i] \in Int /\ WorkerOf[i] \in WorkerIds
  BY ClockTime, SnowflakeAssumption DEF TypeOK
<1>2. id \in PossibleIds /\ id \in Int BY <1>1, MakeIdType DEF PossibleIds
<1>3. /\ issued' = [issued EXCEPT ![i] = Append(issued[i], id)]
      /\ issued \in [Instances -> Seq(Int)]
  BY DEF Issue, TypeOK
<1> HIDE DEF id
<1> DEFINE n == Len(issued[i]) + 1
<1>4. /\ n \in 1 .. Len(issued'[i]) /\ issued'[i][n] = id
      /\ \A k \in 1 .. Len(issued[i]) :
           k \in 1 .. Len(issued'[i]) /\ k < n /\ issued'[i][k] = issued[i][k]
  BY <1>2, <1>3
<1>5. \A j \in Instances : j # i => issued'[j] = issued[j] BY <1>3
<1> HIDE DEF n
<1>6. ASSUME NEW j \in Instances, NEW k \in 1 .. Len(issued[j]) PROVE issued[j][k] # id
  <2>1. CASE j = i
    <3>1. k \in 1 .. Len(issued'[i]) /\ k < n /\ issued'[i][k] = issued[i][k]
      BY <1>4, <2>1
    <3>2. k \in Int /\ n \in Int BY <1>4
    <3>3. issued'[i][k] # issued'[i][n] BY <1>4, <3>1, <3>2 DEF IdsUnique
    <3>4. QED BY <1>4, <2>1, <3>1, <3>3
  <2>2. CASE j # i BY <1>4, <1>5, <2>2 DEF IdsUnique
  <2>3. QED BY <2>1, <2>2
<1>7. \A k \in 1 .. Len(issued[i]) : issued[i][k] < id BY <1>4 DEF IdsGrow
<1>8. id \notin Source!Drawn BY <1>6 DEF Source!Drawn, Source!DrawnBy
<1>9. \A old \in Source!DrawnBy(i) : old < id BY <1>7 DEF Source!DrawnBy
<1>10. QED BY <1>2, <1>3, <1>8, <1>9 DEF Source!Draw

\* The fleet implements IdSource (snowflake.go: what link.IDGenerator and
\* clicks.IDGenerator are used for).
THEOREM FleetImplementsIdSource ==
  ASSUME ClocksInField, RestartsSafe, WorkersDiffer
  PROVE  Spec => ImplementsIdSource
<1>1. Init => Source!Init BY DEF Init, Source!Init
<1>2. ASSUME IInv, IdsUnique', IdsGrow', [Next]_vars PROVE [Source!Next]_issued
  <2>1. ASSUME NEW i \in Instances, NEW c \in Callers, NEW s \in SequenceNumbers,
               Issue(i, c, clock[i], s)
        PROVE  Source!Next
    BY <1>2, <2>1, IssueIsDraw DEF Source!Next
  <2>2. \A i \in Instances : sequence[i] \in SequenceNumbers /\ NextSequence(i) \in SequenceNumbers
    BY <1>2, NextSequenceType DEF IInv, TypeOK
  <2>3. 0 \in SequenceNumbers BY LayoutAssumption DEF SequenceNumbers
  <2>4. ASSUME NEW i \in Instances, NEW c \in Callers,
               NextInSameMs(i, c) \/ NextInNewMs(i, c) \/ WaitNextMillis(i, c)
        PROVE  Source!Next
    BY <2>1, <2>2, <2>3, <2>4 DEF NextInSameMs, NextInNewMs, WaitNextMillis
  <2>5. ASSUME NEW i \in Instances, NEW c \in Callers,
               Call(i, c) \/ RefuseId(i, c) \/ ExhaustMs(i, c)
        PROVE  UNCHANGED issued
    BY <2>5 DEF Call, RefuseId, ExhaustMs
  <2>6. CASE UNCHANGED vars BY <2>6 DEF vars
  <2>7. CASE Next
    <3>1. PICK i \in Instances :
            Tick(i) \/ Restart(i) \/ \E c \in Callers : Call(i, c) \/ Serve(i, c) \/ WaitNextMillis(i, c)
      BY <2>7 DEF Next
    <3>2. CASE Tick(i) BY <3>2 DEF Tick
    <3>3. CASE Restart(i) BY <3>3 DEF Restart
    <3>4. CASE \E c \in Callers : Call(i, c) \/ Serve(i, c) \/ WaitNextMillis(i, c)
      BY <2>4, <2>5, <3>4 DEF Serve
    <3>5. QED BY <3>1, <3>2, <3>3, <3>4
  <2>8. QED BY <1>2, <2>6, <2>7
<1>3. QED
  BY <1>1, <1>2, Inductive, IssuedIdsUnique, IssuedIdsGrow, PTL
  DEF Spec, ImplementsIdSource, Source!Spec

=============================================================================
