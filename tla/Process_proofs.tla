--------------------------- MODULE Process_proofs ---------------------------
(***************************************************************************)
(* Proofs about Process: in a process that starts, serves and stops in any *)
(* way, with any number of clicks, links, partitions and connections, the  *)
(* invariants of ClickDelivery and of Startup hold.                        *)
(*                                                                         *)
(* The steps of a running service are of seven kinds; each part of the     *)
(* inductive invariant is shown to survive each kind.                      *)
(***************************************************************************)
EXTENDS Process, SequenceTheorems, TLAPS

-----------------------------------------------------------------------------
(***************************************************************************)
(* The kinds of steps.                                                     *)
(***************************************************************************)
\* The handler of r goes on, begins or returns without a click.
HandlerMoves(r) ==
  /\ Running
  /\ handler[r] \in {"none"} \cup Active
  /\ \E label \in Active \cup {"clickless"} :
       /\ Goes(r, label)
       /\ label \in Active /\ handler[r] = "none" =>
            main \in {"serve", "shutdown"} \/ why \in {"error", "deadline"}
       /\ reported' = reported \/ (reported' = reported \cup {r} /\ label = "clickless")
  /\ UNCHANGED <<RunVars, buffer, kafkaUp, log, published>>

\* run goes on, and nothing else changes.
MainMoves ==
  /\ \/ main = "serve" /\ Proceed("shutdown", "signal")
     \/ main = "serve" /\ Proceed("flush", "error")
     \/ main = "shutdown" /\ NoneActive /\ Proceed("flush", why)
     \/ main = "shutdown" /\ Proceed("unwind", "deadline")
     \/ main = "flush" /\ Proceed("close", why)
  /\ UNCHANGED ClickVars

\* A step of the service, with or without a builder.
ServiceStep ==
  \/ Next
  \/ \E r \in Clicks : SkipClick(r)

\* The kinds are all there is (ClickDelivery: Next, Process: SkipClick).
LEMMA Kinds ==
  ASSUME ServiceStep
  PROVE  \/ \E r \in Clicks : HandlerMoves(r)
         \/ \E r \in Clicks : Publish(r)
         \/ \E p \in Partitions : Deliver(p)
         \/ \E p \in Partitions : Refused(p)
         \/ KafkaChanges
         \/ MainMoves
         \/ Close
         \/ Exit \/ Crash
<1>1. CASE \E r \in Clicks : SkipClick(r)
  BY <1>1 DEF SkipClick, HandlerMoves, Running, Goes, Active, ClickVars, RunVars
<1>2. CASE Signal
  BY <1>2 DEF Signal, MainMoves
<1>3. CASE \E r \in Clicks : Accept(r) \/ Handle(r) \/ QueryEnds(r)
  <2> PICK r \in Clicks : Accept(r) \/ Handle(r) \/ QueryEnds(r)
    BY <1>3
  <2>1. CASE Accept(r)
    BY <2>1 DEF Accept, HandlerMoves, Running, Goes, Active, ClickVars, RunVars
  <2>2. CASE AskCache(r)
    BY <2>2 DEF AskCache, HandlerMoves, Running, Goes, Active, ClickVars, RunVars
  <2>3. CASE Acquire(r)
    BY <2>3 DEF Acquire, HandlerMoves, Running, Goes, Active, ClickVars, RunVars
  <2>4. CASE PoolRefuses(r)
    BY <2>4 DEF PoolRefuses, HandlerMoves, Running, Goes, Active, ClickVars, RunVars
  <2>5. CASE QueryEnds(r)
    BY <2>5 DEF QueryEnds, HandlerMoves, Running, Goes, Active, ClickVars, RunVars
  <2>6. CASE Build(r)
    BY <2>6 DEF Build, HandlerMoves, Running, Goes, Active, ClickVars, RunVars
  <2>7. CASE PublishTooLate(r)
    BY <2>7 DEF PublishTooLate, ProducerClosed, HandlerMoves, Running, Goes, Active, ClickVars, RunVars
  <2> QED  BY <2>1, <2>2, <2>3, <2>4, <2>5, <2>6, <2>7 DEF Handle
<1>4. CASE ServerFails \/ Stop
  BY <1>4 DEF ServerFails, Stop, HandlersFinish, ShutdownTimesOut, FlushEnds, FlushTimesOut, MainMoves
<1> QED  BY <1>1, <1>2, <1>3, <1>4 DEF ServiceStep, Next, Work

\* A buffer that is given up leaves its first records, or none, at the end of the
\* partition (ClickDelivery: Close, Vanish).
GivesUp(p, n) ==
  /\ n \in 0 .. Len(buffer[p])
  /\ buffer'[p] = <<>>
  /\ log'[p] \in Seq(Clicks)
  /\ DOMAIN log'[p] = 1 .. Len(log[p]) + n
  /\ \A k \in 1 .. Len(log[p]) : log'[p][k] = log[p][k]
  /\ \A k \in 1 .. n : log'[p][Len(log[p]) + k] = buffer[p][k]

\* ... and that is what happens to each partition (ClickDelivery: GiveUpBuffer).
LEMMA GivenUp ==
  ASSUME TypeOK, GiveUpBuffer
  PROVE  /\ \A p \in Partitions : \E n \in Nat : GivesUp(p, n)
         /\ buffer' \in [Partitions -> Seq(Clicks)]
         /\ log' \in [Partitions -> Seq(Clicks)]
<1>1. PICK sent \in [Partitions -> 0 .. MaxBuffered] :
        /\ \A p \in Partitions : sent[p] <= Len(buffer[p])
        /\ log' = [p \in Partitions |-> log[p] \o SubSeq(buffer[p], 1, sent[p])]
  BY DEF GiveUpBuffer
<1>2. ASSUME NEW p \in Partitions
      PROVE  sent[p] \in Nat /\ GivesUp(p, sent[p])
  <2> DEFINE n == sent[p]
             s == log[p]
             t == SubSeq(buffer[p], 1, n)
  <2>1. n \in 0 .. Len(buffer[p]) /\ n \in Nat
    <3>1. n \in 0 .. MaxBuffered /\ n <= Len(buffer[p])
      BY <1>1
    <3> QED  BY <3>1, ClickDeliveryAssumption DEF TypeOK
  <2>2. buffer[p] \in Seq(Clicks) /\ s \in Seq(Clicks) /\ Len(s) \in Nat /\ DOMAIN s = 1 .. Len(s)
    BY DEF TypeOK
  <2>3. t \in Seq(Clicks) /\ Len(t) = n /\ \A k \in 1 .. n : t[k] = buffer[p][k]
    BY <2>1, <2>2
  <2>4. log'[p] = s \o t /\ buffer'[p] = <<>>
    BY <1>1 DEF GiveUpBuffer
  <2> HIDE DEF n, s, t
  <2>5. /\ s \o t \in Seq(Clicks) /\ Len(s \o t) = Len(s) + n
        /\ \A k \in 1 .. Len(s) + n : (s \o t)[k] = IF k <= Len(s) THEN s[k] ELSE t[k - Len(s)]
    BY <2>2, <2>3, ConcatProperties
  <2>6. DOMAIN (s \o t) = 1 .. Len(s) + n
    BY <2>5
  <2>7. \A k \in 1 .. Len(s) : (s \o t)[k] = s[k]
    BY <2>1, <2>2, <2>5
  <2>8. \A k \in 1 .. n : (s \o t)[Len(s) + k] = buffer[p][k]
    <3> TAKE k \in 1 .. n
    <3>1. /\ Len(s) + k \in 1 .. Len(s) + n /\ ~(Len(s) + k <= Len(s))
          /\ (Len(s) + k) - Len(s) = k
      BY <2>1, <2>2
    <3> QED  BY <2>3, <2>5, <3>1
  <2> QED  BY <2>1, <2>4, <2>5, <2>6, <2>7, <2>8 DEF GivesUp, n, s
<1>3. log' = [p \in Partitions |-> log'[p]]
  BY <1>1
<1>4. \A p \in Partitions : log'[p] \in Seq(Clicks)
  BY <1>2 DEF GivesUp
<1>5. buffer' \in [Partitions -> Seq(Clicks)]
  BY DEF GiveUpBuffer
<1> QED  BY <1>2, <1>3, <1>4, <1>5

-----------------------------------------------------------------------------
(***************************************************************************)
(* Types.                                                                  *)
(***************************************************************************)
\* Every step of the service keeps the types (ClickDelivery: TypeOK).
LEMMA TypesKept ==
  ASSUME TypeOK, ServiceStep
  PROVE  TypeOK'
<1> USE DEF TypeOK
<1>1. CASE \E r \in Clicks : HandlerMoves(r)
  BY <1>1 DEF HandlerMoves, Goes, RunVars
<1>2. CASE \E r \in Clicks : Publish(r)
  <2> PICK r \in Clicks : Publish(r)
    BY <1>2
  <2>1. CodeOf[r] \in Codes /\ Partition(r) \in Partitions
    BY ClickDeliveryAssumption DEF Partition
  <2> QED  BY <2>1 DEF Publish, Goes, RunVars
<1>3. CASE \E p \in Partitions : Deliver(p)
  BY <1>3 DEF Deliver, RunVars
<1>4. CASE \E p \in Partitions : Refused(p)
  BY <1>4 DEF Refused, RunVars
<1>5. CASE KafkaChanges
  BY <1>5 DEF KafkaChanges, RunVars
<1>6. CASE MainMoves
  BY <1>6 DEF MainMoves, Proceed, ClickVars, Phases, Reasons
<1>7. CASE Close
  <2>1. Buffered \subseteq Clicks
    BY DEF Buffered, ToSet
  <2>2. buffer' \in [Partitions -> Seq(Clicks)] /\ log' \in [Partitions -> Seq(Clicks)]
    BY <1>7, GivenUp DEF Close
  <2> QED  BY <1>7, <2>1, <2>2 DEF Close, Proceed, Phases
<1>8. CASE Exit \/ Crash
  <2>1. buffer' \in [Partitions -> Seq(Clicks)] /\ log' \in [Partitions -> Seq(Clicks)]
    BY <1>8, GivenUp DEF Exit, Crash, Vanish
  <2> QED  BY <1>8, <2>1 DEF Exit, Crash, Vanish, Phases, Reasons
<1> QED  BY <1>1, <1>2, <1>3, <1>4, <1>5, <1>6, <1>7, <1>8, Kinds

-----------------------------------------------------------------------------
(***************************************************************************)
(* Phases.                                                                 *)
(***************************************************************************)
\* Every step of the service keeps phases, ends and handlers in agreement, and a
\* stop by a signal graceful (main.go: run).
LEMMA PhasesKept ==
  ASSUME TypeOK, PhasesAgree, StopIsGraceful, ServiceStep
  PROVE  PhasesAgree' /\ StopIsGraceful'
<1> USE DEF TypeOK, PhasesAgree, StopIsGraceful, ProducerClosed, Phases, Reasons
<1>1. CASE \E r \in Clicks : HandlerMoves(r)
  BY <1>1 DEF HandlerMoves, Goes, RunVars, Running, Active
<1>2. CASE \E r \in Clicks : Publish(r)
  <2> PICK r \in Clicks : Publish(r)
    BY <1>2
  <2>1. /\ handler' = [handler EXCEPT ![r] = "clicked"] /\ UNCHANGED <<main, why>>
        /\ main # "gone" /\ ~ProducerClosed
    BY DEF Publish, Goes, RunVars, Running
  <2>2. PhasesAgree'
    BY <2>1
  <2>3. StopIsGraceful'
    BY <2>1 DEF Active
  <2> QED  BY <2>2, <2>3
<1>3. CASE \E p \in Partitions : Deliver(p)
  BY <1>3 DEF Deliver, RunVars, Running
<1>4. CASE \E p \in Partitions : Refused(p)
  BY <1>4 DEF Refused, RunVars, Running
<1>5. CASE KafkaChanges
  BY <1>5 DEF KafkaChanges, RunVars
<1>6. CASE MainMoves
  BY <1>6 DEF MainMoves, Proceed, ClickVars, NoneActive
<1>7. CASE Close
  BY <1>7 DEF Close, Proceed, GiveUpBuffer
<1>8. CASE Exit \/ Crash
  BY <1>8 DEF Exit, Crash, Vanish, GiveUpBuffer, Running, Active
<1> QED  BY <1>1, <1>2, <1>3, <1>4, <1>5, <1>6, <1>7, <1>8, Kinds

-----------------------------------------------------------------------------
(***************************************************************************)
(* Clicks.                                                                 *)
(***************************************************************************)
\* Every step of the service publishes a click at most once (handlers.go: Redirect).
LEMMA OnceKept ==
  ASSUME TypeOK, PublishedOnce, ServiceStep
  PROVE  PublishedOnce'
<1> USE DEF TypeOK, PublishedOnce, Published, ToSet
<1>1. CASE \E r \in Clicks : HandlerMoves(r)
  BY <1>1 DEF HandlerMoves, Goes, Active
<1>2. CASE \E r \in Clicks : Publish(r)
  <2> PICK r \in Clicks : Publish(r)
    BY <1>2
  <2>1. /\ handler[r] = "publish" /\ handler' = [handler EXCEPT ![r] = "clicked"]
        /\ published' = Append(published, r)
    BY DEF Publish, Goes
  <2>2. \A n \in DOMAIN published : published[n] # r
    BY <2>1
  <2>3. /\ DOMAIN published' = 1 .. Len(published) + 1
        /\ \A n \in DOMAIN published : published'[n] = published[n]
        /\ published'[Len(published) + 1] = r
        /\ DOMAIN published = 1 .. Len(published) /\ Len(published) \in Nat
    BY <2>1
  <2>4. \A q \in Clicks : q \in Published' <=> q \in Published \/ q = r
    <3>1. \A q : q \in Published <=> \E n \in DOMAIN published : published[n] = q
      OBVIOUS
    <3>2. \A q : q \in Published' <=> \E n \in DOMAIN published' : published'[n] = q
      OBVIOUS
    <3> HIDE DEF TypeOK, PublishedOnce, Published, ToSet
    <3> QED  BY <2>3, <3>1, <3>2
  <2>5. \A q \in Clicks : q \in Published' <=> handler'[q] = "clicked"
    BY <2>1, <2>4
  <2>6. \A m, n \in DOMAIN published' : published'[m] = published'[n] => m = n
    BY <2>2, <2>3
  <2> QED  BY <2>5, <2>6
<1>3. CASE \E p \in Partitions : Deliver(p)
  BY <1>3 DEF Deliver
<1>4. CASE \E p \in Partitions : Refused(p)
  BY <1>4 DEF Refused
<1>5. CASE KafkaChanges
  BY <1>5 DEF KafkaChanges
<1>6. CASE MainMoves
  BY <1>6 DEF MainMoves, Proceed, ClickVars
<1>7. CASE Close
  BY <1>7 DEF Close, Proceed
<1>8. CASE Exit \/ Crash
  <2>1. \A r \in Clicks : handler'[r] = "clicked" <=> handler[r] = "clicked"
    BY <1>8 DEF Exit, Crash, Vanish, Active
  <2>2. published' = published
    BY <1>8 DEF Exit, Crash, Vanish
  <2> QED  BY <2>1, <2>2
<1> QED  BY <1>1, <1>2, <1>3, <1>4, <1>5, <1>6, <1>7, <1>8, Kinds

\* The queues keep their order when nothing is published and nothing moves.
LEMMA QueuesUnchanged ==
  ASSUME QueuesInOrder, UNCHANGED <<buffer, log, published>>
  PROVE  QueuesInOrder'
BY DEF QueuesInOrder, Published, Precedes

\* A partition's buffer loses its head, which may go to the log: the queues keep
\* their order (ClickDelivery: Deliver, Refused).
LEMMA HeadLeaves ==
  ASSUME TypeOK, QueuesInOrder, NEW p \in Partitions, buffer[p] # <<>>,
         buffer' = [buffer EXCEPT ![p] = Tail(@)], UNCHANGED published,
         log' = log \/ log' = [log EXCEPT ![p] = Append(@, Head(buffer[p]))]
  PROVE  QueuesInOrder'
<1> USE DEF TypeOK
<1>1. /\ buffer[p] \in Seq(Clicks) /\ Len(buffer[p]) \in Nat \ {0}
      /\ Head(buffer[p]) = buffer[p][1] /\ 1 \in DOMAIN buffer[p]
      /\ DOMAIN buffer[p] = 1 .. Len(buffer[p])
  OBVIOUS
<1>2. /\ DOMAIN Tail(buffer[p]) = 1 .. Len(buffer[p]) - 1
      /\ \A k \in 1 .. Len(buffer[p]) - 1 : Tail(buffer[p])[k] = buffer[p][k + 1]
  BY <1>1
<1>3. Published' = Published /\ \A x, y : Precedes(x, y)' <=> Precedes(x, y)
  BY DEF Published, ToSet, Precedes
<1>4. ASSUME NEW q \in Partitions
      PROVE  /\ \A k \in DOMAIN log'[q] : log'[q][k] \in Published /\ Partition(log'[q][k]) = q
             /\ \A k \in DOMAIN buffer'[q] : buffer'[q][k] \in Published /\ Partition(buffer'[q][k]) = q
             /\ \A k, l \in DOMAIN log'[q] : k < l => Precedes(log'[q][k], log'[q][l])
             /\ \A k \in DOMAIN log'[q], l \in DOMAIN buffer'[q] : Precedes(log'[q][k], buffer'[q][l])
             /\ \A k, l \in DOMAIN buffer'[q] : k < l => Precedes(buffer'[q][k], buffer'[q][l])
  <2>1. CASE q # p
    <3>1. log'[q] = log[q] /\ buffer'[q] = buffer[q]
      BY <2>1
    <3> QED  BY <3>1 DEF QueuesInOrder
  <2>2. CASE q = p
    <3>1. buffer'[p] = Tail(buffer[p])
      OBVIOUS
    <3>2. \A l \in DOMAIN buffer'[p] : l \in Nat /\ l + 1 \in DOMAIN buffer[p] /\ buffer'[p][l] = buffer[p][l + 1]
      BY <1>1, <1>2, <3>1
    <3>3. \A k \in DOMAIN log'[p] :
            \/ k \in DOMAIN log[p] /\ log'[p][k] = log[p][k]
            \/ k = Len(log[p]) + 1 /\ log'[p][k] = buffer[p][1]
      <4>1. CASE log' = log
        BY <4>1
      <4>2. CASE log' = [log EXCEPT ![p] = Append(@, Head(buffer[p]))]
        <5>1. log[p] \in Seq(Clicks) /\ log'[p] = Append(log[p], buffer[p][1])
          BY <1>1, <4>2
        <5> QED  BY <5>1
      <4> QED  BY <4>1, <4>2
    <3>4. DOMAIN log[p] = 1 .. Len(log[p]) /\ Len(log[p]) \in Nat
      OBVIOUS
    <3>5. \A k, l \in DOMAIN log'[p] : k < l => k \in DOMAIN log[p] /\ log'[p][k] = log[p][k]
      BY <3>3, <3>4, <1>1
    <3>6. /\ \A k \in DOMAIN log'[p] : log'[p][k] \in Published /\ Partition(log'[p][k]) = p
          /\ \A k \in DOMAIN buffer'[p] : buffer'[p][k] \in Published /\ Partition(buffer'[p][k]) = p
      BY <1>1, <3>2, <3>3 DEF QueuesInOrder
    <3>7. \A k, l \in DOMAIN log'[p] : k < l => Precedes(log'[p][k], log'[p][l])
      <4> TAKE k, l \in DOMAIN log'[p]
      <4> HAVE k < l
      <4>1. k \in DOMAIN log[p] /\ log'[p][k] = log[p][k]
        BY <3>5
      <4>2. CASE l \in DOMAIN log[p] /\ log'[p][l] = log[p][l]
        BY <4>1, <4>2 DEF QueuesInOrder
      <4>3. CASE log'[p][l] = buffer[p][1]
        BY <1>1, <4>1, <4>3 DEF QueuesInOrder
      <4> QED  BY <3>3, <4>2, <4>3
    <3>8. \A l \in DOMAIN buffer'[p] : 1 < l + 1
      BY <3>2
    <3>9. \A k \in DOMAIN log'[p], l \in DOMAIN buffer'[p] : Precedes(log'[p][k], buffer'[p][l])
      BY <1>1, <3>2, <3>3, <3>8 DEF QueuesInOrder
    <3>10. \A k, l \in DOMAIN buffer'[p] : k < l => Precedes(buffer'[p][k], buffer'[p][l])
      <4> TAKE k, l \in DOMAIN buffer'[p]
      <4> HAVE k < l
      <4>1. k + 1 < l + 1
        BY <3>2
      <4> QED  BY <3>2, <4>1 DEF QueuesInOrder
    <3> QED  BY <2>2, <3>6, <3>7, <3>9, <3>10
  <2> QED  BY <2>1, <2>2
<1>5. \A x : Partition(x)' = Partition(x)
  BY DEF Partition
<1> QED  BY <1>3, <1>4, <1>5 DEF QueuesInOrder

\* A click that is published joins its queue behind all that were (producer.go:
\* Publish).
LEMMA ClickJoins ==
  ASSUME TypeOK, PublishedOnce, QueuesInOrder, NEW r \in Clicks, Publish(r)
  PROVE  QueuesInOrder'
<1> DEFINE p == Partition(r)
           n == Len(published) + 1
           Later(x, y) == \A k, l \in DOMAIN published' :
                            published'[k] = x /\ published'[l] = y => k < l
<1>1. /\ handler[r] = "publish" /\ p \in Partitions /\ log' = log
      /\ buffer' = [buffer EXCEPT ![p] = Append(@, r)]
      /\ published' = Append(published, r)
  BY ClickDeliveryAssumption DEF Publish, Partition, TypeOK
<1>2. /\ DOMAIN published' = 1 .. n /\ DOMAIN published = 1 .. n - 1
      /\ n \in Nat \ {0} /\ published'[n] = r
      /\ \A m \in DOMAIN published : published'[m] = published[m]
  BY <1>1 DEF TypeOK
<1>3. r \notin Published
  BY <1>1 DEF PublishedOnce
<1>4. /\ \A x : x \in Published <=> \E m \in DOMAIN published : published[m] = x
      /\ \A x : x \in Published' <=> \E m \in DOMAIN published' : published'[m] = x
  BY DEF Published, ToSet
<1> HIDE DEF n
<1>5. \A x \in Published : x \in Published' /\ x # r
  BY <1>2, <1>3, <1>4
<1>6. r \in Published'
  BY <1>2, <1>4
<1>7. \A x \in Published : \A m \in DOMAIN published' :
        published'[m] = x => m \in DOMAIN published /\ published[m] = x
  BY <1>2, <1>5
<1>8. \A x, y \in Published : Precedes(x, y) => Later(x, y)
  BY <1>7 DEF Precedes
<1>9. \A m \in DOMAIN published' : published'[m] = r => m = n
  BY <1>2, <1>3, <1>4
<1>10. \A x \in Published : Later(x, r)
  BY <1>2, <1>7, <1>9 DEF Precedes
<1>11. ASSUME NEW q \in Partitions
       PROVE  /\ \A k \in DOMAIN log[q] : log[q][k] \in Published' /\ Partition(log[q][k]) = q
              /\ \A k \in DOMAIN buffer'[q] : buffer'[q][k] \in Published' /\ Partition(buffer'[q][k]) = q
              /\ \A k, l \in DOMAIN log[q] : k < l => Later(log[q][k], log[q][l])
              /\ \A k \in DOMAIN log[q], l \in DOMAIN buffer'[q] : Later(log[q][k], buffer'[q][l])
              /\ \A k, l \in DOMAIN buffer'[q] : k < l => Later(buffer'[q][k], buffer'[q][l])
  <2>1. /\ buffer[q] \in Seq(Clicks) /\ DOMAIN buffer[q] = 1 .. Len(buffer[q]) /\ Len(buffer[q]) \in Nat
        /\ buffer'[q] = buffer[q] \/ (q = p /\ buffer'[q] = Append(buffer[q], r))
    <3>1. buffer[q] \in Seq(Clicks)
      BY DEF TypeOK
    <3>2. DOMAIN buffer[q] = 1 .. Len(buffer[q]) /\ Len(buffer[q]) \in Nat
      BY <3>1
    <3>3. q # p => buffer'[q] = buffer[q]
      BY <1>1 DEF TypeOK
    <3>4. buffer'[p] = Append(buffer[p], r)
      BY <1>1 DEF TypeOK
    <3> HIDE DEF p
    <3> QED  BY <3>1, <3>2, <3>3, <3>4
  <2>2. \A k \in DOMAIN buffer'[q] :
          \/ k \in DOMAIN buffer[q] /\ buffer'[q][k] = buffer[q][k]
          \/ q = p /\ k = Len(buffer[q]) + 1 /\ buffer'[q][k] = r
    BY <2>1
  <2>3. \A k \in DOMAIN buffer[q] : buffer[q][k] \in Published /\ Partition(buffer[q][k]) = q
    BY DEF QueuesInOrder
  <2>4. \A k \in DOMAIN log[q] : log[q][k] \in Published /\ Partition(log[q][k]) = q
    BY DEF QueuesInOrder
  <2>5. \A k, l \in DOMAIN log[q] : k < l => Later(log[q][k], log[q][l])
    BY <1>8, <2>4 DEF QueuesInOrder
  <2>6. \A k \in DOMAIN buffer'[q] : buffer'[q][k] \in Published' /\ Partition(buffer'[q][k]) = q
    BY <1>5, <1>6, <2>2, <2>3
  <2>7. \A k \in DOMAIN log[q], l \in DOMAIN buffer'[q] : Later(log[q][k], buffer'[q][l])
    <3> TAKE k \in DOMAIN log[q], l \in DOMAIN buffer'[q]
    <3>1. CASE l \in DOMAIN buffer[q] /\ buffer'[q][l] = buffer[q][l]
      <4>1. Precedes(log[q][k], buffer[q][l])
        BY <3>1 DEF QueuesInOrder
      <4> QED  BY <1>8, <2>3, <2>4, <3>1, <4>1
    <3>2. CASE buffer'[q][l] = r
      BY <1>10, <2>4, <3>2
    <3> QED  BY <2>2, <3>1, <3>2
  <2>8. \A k, l \in DOMAIN buffer'[q] : k < l => Later(buffer'[q][k], buffer'[q][l])
    <3> TAKE k, l \in DOMAIN buffer'[q]
    <3> HAVE k < l
    <3>1. k \in DOMAIN buffer[q] /\ buffer'[q][k] = buffer[q][k]
      BY <2>1, <2>2
    <3>2. CASE l \in DOMAIN buffer[q] /\ buffer'[q][l] = buffer[q][l]
      <4>1. Precedes(buffer[q][k], buffer[q][l])
        BY <3>1, <3>2 DEF QueuesInOrder
      <4> QED  BY <1>8, <2>3, <3>1, <3>2, <4>1
    <3>3. CASE buffer'[q][l] = r
      BY <1>10, <2>3, <3>1, <3>3
    <3> QED  BY <2>2, <3>2, <3>3
  <2> QED  BY <1>5, <2>4, <2>5, <2>6, <2>7, <2>8
<1>12. log' = log /\ \A x : Partition(x)' = Partition(x)
  BY <1>1 DEF Partition
<1> QED  BY <1>11, <1>12 DEF QueuesInOrder, Precedes

\* The records that are written when the buffer is given up are its first ones, so
\* the partition stays in order (ClickDelivery: GiveUpBuffer).
LEMMA GiveUpKeepsOrder ==
  ASSUME TypeOK, QueuesInOrder, GiveUpBuffer, UNCHANGED published
  PROVE  QueuesInOrder'
<1>1. Published' = Published /\ \A x, y : Precedes(x, y)' <=> Precedes(x, y)
  BY DEF Published, Precedes
<1>2. ASSUME NEW p \in Partitions
      PROVE  /\ \A k \in DOMAIN log'[p] : log'[p][k] \in Published /\ Partition(log'[p][k]) = p
             /\ DOMAIN buffer'[p] = {}
             /\ \A k, l \in DOMAIN log'[p] : k < l => Precedes(log'[p][k], log'[p][l])
  <2>1. PICK n \in Nat : GivesUp(p, n)
    BY GivenUp
  <2>2. /\ DOMAIN log[p] = 1 .. Len(log[p]) /\ Len(log[p]) \in Nat
        /\ DOMAIN buffer[p] = 1 .. Len(buffer[p]) /\ Len(buffer[p]) \in Nat
    BY DEF TypeOK
  <2>3. \A k \in DOMAIN log'[p] :
          \/ k \in DOMAIN log[p] /\ log'[p][k] = log[p][k]
          \/ /\ Len(log[p]) < k /\ k - Len(log[p]) \in DOMAIN buffer[p]
             /\ log'[p][k] = buffer[p][k - Len(log[p])]
    <3> TAKE k \in DOMAIN log'[p]
    <3>1. k \in 1 .. Len(log[p]) + n
      BY <2>1 DEF GivesUp
    <3>2. CASE k <= Len(log[p])
      BY <2>1, <2>2, <3>1, <3>2 DEF GivesUp
    <3>3. CASE Len(log[p]) < k
      <4>1. k - Len(log[p]) \in 1 .. n /\ Len(log[p]) + (k - Len(log[p])) = k
        BY <2>2, <3>1, <3>3
      <4>2. log'[p][Len(log[p]) + (k - Len(log[p]))] = buffer[p][k - Len(log[p])]
        BY <2>1, <4>1 DEF GivesUp
      <4>3. k - Len(log[p]) \in 1 .. Len(buffer[p])
        BY <2>1, <2>2, <4>1 DEF GivesUp
      <4> QED  BY <2>2, <3>3, <4>1, <4>2, <4>3
    <3> QED  BY <2>2, <3>1, <3>2, <3>3
  <2>4. \A k \in DOMAIN log'[p] : k \in Nat
    BY <2>1, <2>2 DEF GivesUp
  <2>5. ASSUME NEW k \in DOMAIN log'[p], NEW l \in DOMAIN log'[p], k < l
        PROVE  Precedes(log'[p][k], log'[p][l])
    <3>1. CASE l \in DOMAIN log[p] /\ log'[p][l] = log[p][l]
      <4>1. k \in DOMAIN log[p]
        BY <2>2, <2>4, <2>5, <3>1, <2>3
      <4>2. log'[p][k] = log[p][k]
        BY <2>1, <2>2, <4>1 DEF GivesUp
      <4> QED  BY <2>5, <3>1, <4>1, <4>2 DEF QueuesInOrder
    <3>2. CASE /\ l - Len(log[p]) \in DOMAIN buffer[p]
               /\ log'[p][l] = buffer[p][l - Len(log[p])]
      <4>1. CASE k \in DOMAIN log[p] /\ log'[p][k] = log[p][k]
        BY <3>2, <4>1 DEF QueuesInOrder
      <4>2. CASE /\ k - Len(log[p]) \in DOMAIN buffer[p]
                 /\ log'[p][k] = buffer[p][k - Len(log[p])]
        <5>1. k - Len(log[p]) < l - Len(log[p])
          BY <2>2, <2>4, <2>5
        <5> QED  BY <3>2, <4>2, <5>1 DEF QueuesInOrder
      <4> QED  BY <2>3, <4>1, <4>2
    <3> QED  BY <2>3, <3>1, <3>2
  <2>6. DOMAIN buffer'[p] = {}
    BY <2>1 DEF GivesUp
  <2>7. \A k \in DOMAIN log'[p] : log'[p][k] \in Published /\ Partition(log'[p][k]) = p
    BY <2>3 DEF QueuesInOrder
  <2> QED  BY <2>5, <2>6, <2>7
<1>3. \A x : Partition(x)' = Partition(x)
  BY DEF Partition
<1> QED  BY <1>1, <1>2, <1>3 DEF QueuesInOrder

\* No record of a partition is taken back.
LEMMA GiveUpKeepsDelivered ==
  ASSUME TypeOK, GiveUpBuffer
  PROVE  Delivered \subseteq Delivered'
<1> SUFFICES ASSUME NEW p \in Partitions, NEW r \in ToSet(log[p])
             PROVE  r \in ToSet(log'[p])
  BY DEF Delivered
<1>1. PICK k \in DOMAIN log[p] : log[p][k] = r
  BY DEF ToSet
<1>2. PICK n \in Nat : GivesUp(p, n)
  BY GivenUp
<1>3. DOMAIN log[p] = 1 .. Len(log[p]) /\ Len(log[p]) \in Nat
  BY DEF TypeOK
<1>4. k \in DOMAIN log'[p] /\ log'[p][k] = r
  BY <1>1, <1>2, <1>3 DEF GivesUp
<1> QED  BY <1>4 DEF ToSet

\* Every step of the service keeps the queues in order.
LEMMA QueuesKept ==
  ASSUME TypeOK, PublishedOnce, QueuesInOrder, ServiceStep
  PROVE  QueuesInOrder'
<1>1. CASE \E r \in Clicks : HandlerMoves(r)
  BY <1>1, QueuesUnchanged DEF HandlerMoves
<1>2. CASE \E r \in Clicks : Publish(r)
  BY <1>2, ClickJoins
<1>3. CASE \E p \in Partitions : Deliver(p)
  BY <1>3, HeadLeaves DEF Deliver
<1>4. CASE \E p \in Partitions : Refused(p)
  BY <1>4, HeadLeaves DEF Refused
<1>5. CASE KafkaChanges
  BY <1>5, QueuesUnchanged DEF KafkaChanges
<1>6. CASE MainMoves
  BY <1>6, QueuesUnchanged DEF MainMoves, ClickVars
<1>7. CASE Close \/ Exit \/ Crash
  BY <1>7, GiveUpKeepsOrder DEF Close, Exit, Crash, Vanish
<1> QED  BY <1>1, <1>2, <1>3, <1>4, <1>5, <1>6, <1>7, Kinds

\* What is buffered has been published (ClickDelivery: Publish).
LEMMA BufferedPublished ==
  ASSUME TypeOK, QueuesInOrder
  PROVE  Buffered \subseteq Published
<1> SUFFICES ASSUME NEW p \in Partitions, NEW r \in ToSet(buffer[p])
             PROVE  r \in Published
  BY DEF Buffered
<1>1. PICK k \in DOMAIN buffer[p] : buffer[p][k] = r
  BY DEF ToSet
<1> QED  BY <1>1 DEF QueuesInOrder

\* Every step of the service reports the loss only of clicks whose handler is done.
LEMMA LostKept ==
  ASSUME TypeOK, PublishedOnce, QueuesInOrder, LostOnce, ServiceStep
  PROVE  LostOnce'
<1> USE DEF LostOnce
<1>1. CASE \E r \in Clicks : HandlerMoves(r)
  BY <1>1 DEF HandlerMoves, Goes, Active, TypeOK
<1>2. CASE \E r \in Clicks : Publish(r)
  BY <1>2 DEF Publish, Goes, TypeOK
<1>3. CASE \E p \in Partitions : Deliver(p)
  BY <1>3 DEF Deliver
<1>4. CASE \E p \in Partitions : Refused(p)
  <2> PICK p \in Partitions : Refused(p)
    BY <1>4
  <2>1. Head(buffer[p]) \in Published
    <3>1. 1 \in DOMAIN buffer[p] /\ Head(buffer[p]) = buffer[p][1]
      BY DEF Refused, TypeOK
    <3> QED  BY <3>1 DEF QueuesInOrder
  <2>2. Head(buffer[p]) \in Clicks
    BY DEF Refused, TypeOK
  <2> QED  BY <2>1, <2>2 DEF Refused, PublishedOnce
<1>5. CASE KafkaChanges
  BY <1>5 DEF KafkaChanges
<1>6. CASE MainMoves
  BY <1>6 DEF MainMoves, Proceed, ClickVars
<1>7. CASE Close
  <2>1. Buffered \subseteq Published /\ Buffered \subseteq Clicks
    BY BufferedPublished DEF Buffered, TypeOK, ToSet
  <2> QED  BY <1>7, <2>1 DEF Close, Proceed, PublishedOnce
<1>8. CASE Exit \/ Crash
  BY <1>8 DEF Exit, Crash, Vanish, Active, TypeOK
<1> QED  BY <1>1, <1>2, <1>3, <1>4, <1>5, <1>6, <1>7, <1>8, Kinds

\* A partition's buffer loses its head to the log or to the list of lost clicks:
\* all clicks are still accounted for (ClickDelivery: Deliver, Refused).
LEMMA HeadAccounted ==
  ASSUME TypeOK, NEW p \in Partitions, buffer[p] # <<>>, Accounted,
         buffer' = [buffer EXCEPT ![p] = Tail(@)], UNCHANGED published,
         \/ log' = [log EXCEPT ![p] = Append(@, Head(buffer[p]))] /\ UNCHANGED reported
         \/ reported' = reported \cup {Head(buffer[p])} /\ UNCHANGED log
  PROVE  Accounted'
<1>1. /\ buffer[p] \in Seq(Clicks) /\ log[p] \in Seq(Clicks)
      /\ DOMAIN buffer[p] = 1 .. Len(buffer[p]) /\ Len(buffer[p]) \in Nat \ {0}
      /\ Head(buffer[p]) = buffer[p][1]
  BY DEF TypeOK
<1>2. /\ DOMAIN Tail(buffer[p]) = 1 .. Len(buffer[p]) - 1
      /\ \A k \in DOMAIN buffer[p] : k = 1 \/ (k - 1 \in DOMAIN Tail(buffer[p]) /\ Tail(buffer[p])[k - 1] = buffer[p][k])
  BY <1>1
<1>3. ASSUME NEW x \in Buffered
      PROVE  x \in Buffered' \/ x = Head(buffer[p])
  <2> PICK q \in Partitions : x \in ToSet(buffer[q])
    BY DEF Buffered
  <2>1. PICK k \in DOMAIN buffer[q] : buffer[q][k] = x
    BY DEF ToSet
  <2>2. CASE q = p
    <3>1. buffer'[p] = Tail(buffer[p])
      BY DEF TypeOK
    <3>2. k = 1 \/ \E l \in DOMAIN buffer'[p] : buffer'[p][l] = x
      BY <1>2, <2>1, <2>2, <3>1
    <3> QED  BY <1>1, <2>1, <2>2, <3>2 DEF Buffered, ToSet
  <2>3. CASE q # p
    <3>1. buffer'[q] = buffer[q]
      BY <2>3 DEF TypeOK
    <3>2. x \in ToSet(buffer'[q])
      BY <3>1
    <3>3. Buffered' = UNION {ToSet(buffer'[o]) : o \in Partitions}
      BY DEF Buffered, ToSet
    <3> QED  BY <3>2, <3>3
  <2> QED  BY <2>2, <2>3
<1>4. Delivered \subseteq Delivered' /\ reported \subseteq reported'
  <2>1. ASSUME NEW x \in Delivered
        PROVE  x \in Delivered'
    <3> PICK q \in Partitions : x \in ToSet(log[q])
      BY DEF Delivered
    <3>1. PICK k \in DOMAIN log[q] : log[q][k] = x
      BY DEF ToSet
    <3>2. k \in DOMAIN log'[q] /\ log'[q][k] = log[q][k]
      <4>1. log[q] \in Seq(Clicks)
        BY DEF TypeOK
      <4>2. log'[q] = log[q] \/ log'[q] = Append(log[q], Head(buffer[p]))
        BY DEF TypeOK
      <4> QED  BY <3>1, <4>1, <4>2
    <3> QED  BY <3>1, <3>2 DEF Delivered, ToSet
  <2> QED  BY <2>1
<1>5. Head(buffer[p]) \in Delivered' \/ Head(buffer[p]) \in reported'
  <2>1. CASE log' = [log EXCEPT ![p] = Append(@, Head(buffer[p]))]
    <3>1. log'[p] = Append(log[p], Head(buffer[p]))
      BY <2>1 DEF TypeOK
    <3>2. Len(log[p]) + 1 \in DOMAIN log'[p] /\ log'[p][Len(log[p]) + 1] = Head(buffer[p])
      BY <1>1, <3>1
    <3> QED  BY <3>2 DEF Delivered, ToSet
  <2>2. CASE reported' = reported \cup {Head(buffer[p])}
    BY <2>2
  <2> QED  BY <2>1, <2>2
<1>6. Published' = Published
  BY DEF Published
<1> QED  BY <1>3, <1>4, <1>5, <1>6 DEF Accounted

\* Every step of the service keeps account of the clicks, but for a kill and a
\* Shutdown that is cut short (producer.go: Close; main.go: run).
LEMMA AccountKept ==
  ASSUME TypeOK, PhasesAgree, ClicksAccounted, ServiceStep
  PROVE  ClicksAccounted'
<1>1. CASE \E r \in Clicks : HandlerMoves(r)
  BY <1>1 DEF HandlerMoves, RunVars, ClicksAccounted, Accounted, Published, Delivered, Buffered
<1>2. CASE \E r \in Clicks : Publish(r)
  <2> PICK r \in Clicks : Publish(r)
    BY <1>2
  <2> DEFINE p == Partition(r)
  <2>1. /\ p \in Partitions /\ UNCHANGED <<why, log, reported>>
        /\ buffer' = [buffer EXCEPT ![p] = Append(@, r)]
        /\ published' = Append(published, r)
    BY ClickDeliveryAssumption DEF Publish, Partition, RunVars
  <2> HIDE DEF p
  <2>2. ASSUME NEW q \in Partitions, NEW k \in DOMAIN buffer[q]
        PROVE  k \in DOMAIN buffer'[q] /\ buffer'[q][k] = buffer[q][k]
    <3>1. buffer[q] \in Seq(Clicks)
      BY DEF TypeOK
    <3>2. buffer'[q] = buffer[q] \/ buffer'[q] = Append(buffer[q], r)
      BY <2>1 DEF TypeOK
    <3> QED  BY <3>1, <3>2
  <2>3. Buffered \subseteq Buffered'
    BY <2>2 DEF Buffered, ToSet
  <2>4. r \in Buffered'
    <3>1. buffer[p] \in Seq(Clicks) /\ buffer'[p] = Append(buffer[p], r)
      BY <2>1 DEF TypeOK
    <3>2. Len(buffer[p]) + 1 \in DOMAIN buffer'[p] /\ buffer'[p][Len(buffer[p]) + 1] = r
      BY <3>1
    <3> QED  BY <2>1, <3>2 DEF Buffered, ToSet
  <2>5. \A x \in Published' : x \in Published \/ x = r
    <3>1. \A n \in DOMAIN published' : published'[n] = r \/ (n \in DOMAIN published /\ published'[n] = published[n])
      BY <2>1 DEF TypeOK
    <3> QED  BY <3>1 DEF Published, ToSet
  <2>6. Delivered' = Delivered
    BY <2>1 DEF Delivered
  <2> QED  BY <2>1, <2>3, <2>4, <2>5, <2>6 DEF ClicksAccounted, Accounted
<1>3. CASE \E p \in Partitions : Deliver(p)
  BY <1>3, HeadAccounted DEF Deliver, RunVars, ClicksAccounted
<1>4. CASE \E p \in Partitions : Refused(p)
  BY <1>4, HeadAccounted DEF Refused, RunVars, ClicksAccounted
<1>5. CASE KafkaChanges
  BY <1>5 DEF KafkaChanges, RunVars, ClicksAccounted, Accounted, Published, Delivered, Buffered
<1>6. CASE MainMoves
  <2>1. Accounted' <=> Accounted
    BY <1>6 DEF MainMoves, ClickVars, Accounted, Published, Delivered, Buffered
  <2> QED  BY <1>6, <2>1 DEF MainMoves, Proceed, PhasesAgree, ClicksAccounted
<1>7. CASE Close
  <2>1. why' = why /\ Published' = Published /\ Delivered \subseteq Delivered' /\ reported' = reported \cup Buffered
    BY <1>7, GiveUpKeepsDelivered DEF Close, Proceed, Published
  <2> QED  BY <2>1 DEF ClicksAccounted, Accounted
<1>8. CASE Exit
  <2>1. why = "deadline" \/ Buffered = {}
    BY <1>8 DEF Exit, PhasesAgree, ProducerClosed, Buffered, ToSet
  <2>2. why' = why /\ Published' = Published /\ Delivered \subseteq Delivered' /\ reported' = reported
    BY <1>8, GiveUpKeepsDelivered DEF Exit, Vanish, Published
  <2> QED  BY <2>1, <2>2 DEF ClicksAccounted, Accounted
<1>9. CASE Crash
  BY <1>9 DEF Crash, Vanish, ClicksAccounted
<1> QED  BY <1>1, <1>2, <1>3, <1>4, <1>5, <1>6, <1>7, <1>8, <1>9, Kinds

-----------------------------------------------------------------------------
(***************************************************************************)
(* The start.                                                              *)
(***************************************************************************)
\* After a step of the start comes one at which that step's resource is done
\* (main.go: run).
LEMMA StepsFollow ==
  /\ After("postgres") = "redis" /\ After("redis") = "snowflake"
  /\ After("snowflake") = IF ClicksOn THEN "kafka" ELSE "auth"
  /\ After("kafka") = "geoip" /\ After("geoip") = "auth" /\ After("auth") = "listen"
  /\ Done("redis") = Done("postgres") \cup {"postgres"}
  /\ Done("snowflake") = Done("redis") \cup {"redis"}
  /\ Done("kafka") = Done("snowflake")
  /\ Done("geoip") = Done("kafka") \cup {"kafka"}
  /\ Done("auth") = Done("geoip") \cup {"geoip"}
  /\ Done("auth") \ {"kafka", "geoip"} = Done("snowflake")
  /\ Done("listen") = Done("auth") \cup {"auth"}
  /\ Done("serving") = Resources /\ Done("listen") = Resources
  /\ Done("postgres") = {}
BY DEF After, Done, Deps, Resources

\* Every step of the start keeps its types and its order.
LEMMA StartKept ==
  ASSUME StartTypeOK, StartsInOrder, FailedStartLeavesNothing, Starts
  PROVE  StartTypeOK' /\ StartsInOrder' /\ FailedStartLeavesNothing'
<1> USE DEF StartTypeOK, StartsInOrder, FailedStartLeavesNothing
<1>1. ASSUME env' = env
      PROVE  Problems(env)' = Problems(env) /\ Wanted' = Wanted /\ ClicksOn' = ClicksOn
  BY <1>1 DEF Problems, Wanted, ClicksOn, cfg, Settings
<1>2. CASE Load
  <2>1. /\ step = "load" /\ UNCHANGED <<env, open, deferred, ctxDone>>
        /\ step' = "failing" \/ (step' = "postgres" /\ Problems(env) = {})
    BY <1>2 DEF Load
  <2>2. open = {} /\ Done("postgres") = {}
    BY <2>1, StepsFollow
  <2> QED  BY <1>1, <2>1, <2>2 DEF Steps, Resources, Deps
<1>3. ASSUME NEW d \in Deps, Connect(d)
      PROVE  StartTypeOK' /\ StartsInOrder' /\ FailedStartLeavesNothing'
  <2>1. /\ step = d /\ step' = After(d) /\ env' = env /\ open' = open \cup {d}
        /\ deferred' = deferred \cup ({d} \ {"kafka"}) /\ ctxDone' = ctxDone
    BY <1>3 DEF Connect, Opens
  <2>2. d \in Wanted
    BY <2>1 DEF Deps, Wanted
  <2>3. CASE d = "postgres"
    BY <1>1, <2>1, <2>2, <2>3, StepsFollow DEF Steps, Resources, Deps
  <2>4. CASE d = "redis"
    BY <1>1, <2>1, <2>2, <2>4, StepsFollow DEF Steps, Resources, Deps
  <2>5. CASE d = "kafka"
    BY <1>1, <2>1, <2>2, <2>5, StepsFollow DEF Steps, Resources, Deps
  <2> QED  BY <2>3, <2>4, <2>5 DEF Deps
<1>4. CASE \E d \in Deps : PingFails(d)
  BY <1>1, <1>4 DEF PingFails, Steps, Deps
<1>5. CASE MakeGenerator
  <2>1. ~ClicksOn => "kafka" \notin Wanted /\ "geoip" \notin Wanted
    BY DEF Wanted
  <2> QED  BY <1>1, <1>5, <2>1, StepsFollow DEF MakeGenerator, Steps, Resources, Deps
<1>6. ASSUME NEW resource \in {"geoip", "auth"}, NEW setting,
             IsSet(setting) <=> resource \in Wanted, OpenOptional(resource, setting)
      PROVE  StartTypeOK' /\ StartsInOrder' /\ FailedStartLeavesNothing'
  <2>1. step = resource /\ env' = env /\ ctxDone' = ctxDone
    BY <1>6 DEF OpenOptional
  <2>2. CASE step' = After(step) /\ resource \notin Wanted /\ UNCHANGED <<open, deferred>>
    BY <1>1, <2>1, <2>2, StepsFollow DEF Steps, Resources, Deps
  <2>3. CASE step' = After(step) /\ resource \in Wanted /\ Opens(resource)
    BY <1>1, <2>1, <2>3, StepsFollow DEF Opens, Steps, Resources, Deps
  <2>4. CASE step' = "failing" /\ UNCHANGED <<open, deferred>>
    BY <1>1, <2>1, <2>4 DEF Steps
  <2> QED  BY <1>6, <2>2, <2>3, <2>4 DEF OpenOptional
<1>7. CASE OpenOptional("geoip", "GEOIP_DB_PATH") \/ OpenOptional("auth", "AUTH_ADDR")
  <2>1. IsSet("AUTH_ADDR") <=> "auth" \in Wanted
    BY DEF IsSet, Wanted, cfg, Settings
  <2>2. ClicksOn => (IsSet("GEOIP_DB_PATH") <=> "geoip" \in Wanted)
    BY DEF IsSet, Wanted, cfg, Settings
  <2>3. CASE OpenOptional("geoip", "GEOIP_DB_PATH")
    <3>1. ClicksOn
      BY <2>3 DEF OpenOptional
    <3> QED  BY <1>6, <2>2, <2>3, <3>1
  <2>4. CASE OpenOptional("auth", "AUTH_ADDR")
    BY <1>6, <2>1, <2>4
  <2> QED  BY <1>7, <2>3, <2>4
<1>8. CASE Listen
  BY <1>1, <1>8, StepsFollow DEF Listen, Steps, Resources, Deps
<1>9. CASE GiveUp
  BY <1>1, <1>9 DEF GiveUp, Steps
<1> QED  BY <1>2, <1>3, <1>4, <1>5, <1>7, <1>8, <1>9 DEF Starts, Dial, Proceeds

-----------------------------------------------------------------------------
(***************************************************************************)
(* The theorems.                                                           *)
(***************************************************************************)
\* What the inductive invariant says of the clicks, and of the start.
ClickPart == TypeOK /\ PublishedOnce /\ QueuesInOrder /\ PhasesAgree
             /\ ClicksAccounted /\ LostOnce /\ StopIsGraceful
StartPart == StartTypeOK /\ StartsInOrder /\ FailedStartLeavesNothing

\* A process begins within the invariant (main.go: run).
LEMMA InvInit ==
  ASSUME ProcessInit
  PROVE  IInv
<1>1. TypeOK
  BY DEF ProcessInit, Init, TypeOK, Phases, Reasons
<1>2. PublishedOnce /\ QueuesInOrder
  BY DEF ProcessInit, Init, PublishedOnce, QueuesInOrder, Published, ToSet
<1>3. PhasesAgree /\ StopIsGraceful
  BY DEF ProcessInit, Init, PhasesAgree, StopIsGraceful, ProducerClosed
<1>4. ClicksAccounted /\ LostOnce
  BY DEF ProcessInit, Init, ClicksAccounted, LostOnce, Accounted, Published, ToSet
<1>5. StartTypeOK /\ StartsInOrder /\ FailedStartLeavesNothing
  BY ProcessAssumption DEF ProcessInit, Begin, StartTypeOK, StartsInOrder, FailedStartLeavesNothing, Steps
<1> QED  BY <1>1, <1>2, <1>3, <1>4, <1>5 DEF IInv

\* Every step of a process keeps the invariant.
LEMMA InvNext ==
  ASSUME IInv, [ProcessNext]_processVars
  PROVE  IInv'
<1>1. ASSUME UNCHANGED vars
      PROVE  ClickPart'
  BY <1>1 DEF IInv, ClickPart, vars, TypeOK, PublishedOnce, QueuesInOrder, Published, Precedes, Partition,
              PhasesAgree, ProducerClosed, ClicksAccounted, LostOnce, Accounted, Delivered, Buffered, StopIsGraceful
<1>2. ASSUME UNCHANGED <<env, step, open, deferred>>, ctxDone' \in BOOLEAN
      PROVE  StartPart'
  BY <1>2 DEF IInv, StartPart, StartTypeOK, StartsInOrder, FailedStartLeavesNothing,
              Problems, Wanted, ClicksOn, cfg, Settings
<1>3. ASSUME ServiceStep
      PROVE  ClickPart'
  BY <1>3, TypesKept, PhasesKept, OnceKept, QueuesKept, AccountKept, LostKept DEF IInv, ClickPart
<1>4. ASSUME UNCHANGED startVars
      PROVE  StartPart'
  BY <1>2, <1>4 DEF startVars, IInv, StartTypeOK
<1>5. CASE StartStep
  BY <1>1, <1>5, StartKept DEF StartStep, IInv, ClickPart, StartPart
<1>6. CASE SignalArrives
  BY <1>1, <1>2, <1>6 DEF SignalArrives, IInv, ClickPart, StartPart
<1>7. CASE SelectSignal \/ InService(Work) \/ \E r \in Clicks : SkipClick(r)
  <2>1. ServiceStep
    BY <1>7 DEF SelectSignal, InService, ServiceStep, Next
  <2>2. UNCHANGED startVars
    BY <1>7 DEF SelectSignal, InService, SkipClick
  <2> QED  BY <1>3, <1>4, <2>1, <2>2 DEF IInv, ClickPart, StartPart
<1>8. CASE UNCHANGED processVars
  BY <1>1, <1>4, <1>8 DEF processVars, IInv, ClickPart, StartPart
<1> QED  BY <1>5, <1>6, <1>7, <1>8 DEF ProcessNext

\* The inductive invariant holds in every process.
THEOREM Invariance == ProcessSpec => []IInv
<1>1. ProcessInit => IInv
  BY InvInit
<1>2. IInv /\ [ProcessNext]_processVars => IInv'
  BY InvNext
<1> QED  BY <1>1, <1>2, PTL DEF ProcessSpec

\* Every variable of the running service keeps its type.
THEOREM TypeCorrect == ProcessSpec => []TypeOK
<1>1. IInv => TypeOK
  BY DEF IInv
<1> QED  BY <1>1, Invariance, PTL

\* However a process ends, but for a kill and a Shutdown that is cut short, each
\* click its producer took is in Kafka, in the buffer or in the log of losses
\* (producer.go, main.go: run).
THEOREM ClicksStayAccounted == ProcessSpec => []ClicksAccounted
<1>1. IInv => ClicksAccounted
  BY DEF IInv
<1> QED  BY <1>1, Invariance, PTL

\* After a signal the buffer is flushed and the pools are closed only when every
\* handler has returned (main.go: run).
THEOREM StopsAreGraceful == ProcessSpec => []StopIsGraceful
<1>1. IInv => StopIsGraceful
  BY DEF IInv
<1> QED  BY <1>1, Invariance, PTL

\* The clicks of one link are read in the order they were published, for any
\* number of links, partitions and brokers' failures (producer.go: Publish).
THEOREM ClicksKeepTheirOrder == ProcessSpec => []LinkClicksInOrder
<1>1. ASSUME IInv
      PROVE  LinkClicksInOrder
  <2> DEFINE Pos(r) == CHOOSE n \in 1 .. Len(published) : published[n] = r
  <2>1. published \in Seq(Clicks) /\ DOMAIN published = 1 .. Len(published)
    BY <1>1 DEF IInv, TypeOK
  <2>2. ASSUME NEW r \in Published
        PROVE  Pos(r) \in DOMAIN published /\ published[Pos(r)] = r
    BY <2>1, <2>2 DEF Published, ToSet
  <2> HIDE DEF Pos
  <2>3. ASSUME NEW p \in Partitions, NEW q \in Partitions,
               NEW k \in 1 .. Len(log[p]), NEW l \in 1 .. Len(log[q]),
               CodeOf[log[p][k]] = CodeOf[log[q][l]]
        PROVE  p = q /\ (k < l => Pos(log[p][k]) < Pos(log[q][l]))
    <3>1. k \in DOMAIN log[p] /\ l \in DOMAIN log[q]
      BY <1>1 DEF IInv, TypeOK
    <3>2. /\ log[p][k] \in Published /\ Partition(log[p][k]) = p
          /\ log[q][l] \in Published /\ Partition(log[q][l]) = q
      BY <1>1, <3>1 DEF IInv, QueuesInOrder
    <3>3. p = q
      BY <2>3, <3>2 DEF Partition
    <3>4. ASSUME k < l
          PROVE  Pos(log[p][k]) < Pos(log[q][l])
      <4>1. Precedes(log[p][k], log[q][l])
        BY <1>1, <3>1, <3>3, <3>4 DEF IInv, QueuesInOrder
      <4> QED  BY <2>2, <3>2, <4>1 DEF Precedes
    <3> QED  BY <3>3, <3>4
  <2> QED  BY <2>3 DEF LinkClicksInOrder, Pos
<1> QED  BY <1>1, Invariance, PTL

\* A process serves with exactly what its settings ask for (main.go: run;
\* config.go: Load).
THEOREM ServiceIsAsConfigured == ProcessSpec => []ServesAsConfigured
<1>1. ASSUME IInv
      PROVE  ServesAsConfigured
  <2> SUFFICES ASSUME step = "serving"
               PROVE  Problems(env) = {} /\ open = Wanted /\ cfg.WORKER_ID <= MaxWorkerID
    BY DEF ServesAsConfigured
  <2>1. Problems(env) = {} /\ open = Wanted \cap Resources
    BY <1>1, StepsFollow DEF IInv, StartsInOrder
  <2>2. Wanted \subseteq Resources
    BY DEF Wanted, Resources, Deps
  <2>3. WorkerFits(Get(env, "WORKER_ID"))
    BY <2>1 DEF Problems
  <2>4. cfg.WORKER_ID = Get(env, "WORKER_ID")
    BY DEF cfg, Settings, Variables, Values
  <2> QED  BY <2>1, <2>2, <2>3, <2>4 DEF WorkerFits
<1> QED  BY <1>1, Invariance, PTL

\* A start that fails leaves nothing open but the producer (main.go: run).
THEOREM FailedStartsLeaveNothing == ProcessSpec => []FailedStartLeavesNothing
<1>1. IInv => FailedStartLeavesNothing
  BY DEF IInv
<1> QED  BY <1>1, Invariance, PTL

-----------------------------------------------------------------------------
(***************************************************************************)
(* The promise: every step of a process is a step of ClickStream or leaves *)
(* its variables alone.                                                    *)
(***************************************************************************)
\* A click does not come before itself.
LEMMA NoneBeforeItself ==
  ASSUME TypeOK, NEW r \in Published
  PROVE  ~Precedes(r, r)
<1>1. PICK n \in DOMAIN published : published[n] = r
  BY DEF Published, ToSet
<1>2. n \in Nat
  BY DEF TypeOK
<1> QED  BY <1>1, <1>2 DEF Precedes

\* A buffered click sits in the buffer of its own partition (ClickDelivery: Publish).
LEMMA Placed ==
  ASSUME TypeOK, QueuesInOrder, NEW r \in Buffered
  PROVE  /\ Partition(r) \in Partitions
         /\ \E k \in DOMAIN buffer[Partition(r)] : buffer[Partition(r)][k] = r
<1> PICK p \in Partitions : r \in ToSet(buffer[p])
  BY DEF Buffered
<1>1. PICK k \in DOMAIN buffer[p] : buffer[p][k] = r
  BY DEF ToSet
<1> QED  BY <1>1 DEF QueuesInOrder

\* The head of a buffer leaves it for good: no other place holds the same click.
LEMMA HeadGoes ==
  ASSUME TypeOK, QueuesInOrder, NEW p \in Partitions, buffer[p] # <<>>,
         buffer' = [buffer EXCEPT ![p] = Tail(@)]
  PROVE  /\ Head(buffer[p]) \in Buffered
         /\ Buffered' = Buffered \ {Head(buffer[p])}
<1> DEFINE h == Head(buffer[p])
<1>1. /\ buffer[p] \in Seq(Clicks) /\ h = buffer[p][1] /\ 1 \in DOMAIN buffer[p]
      /\ DOMAIN buffer[p] = 1 .. Len(buffer[p]) /\ Len(buffer[p]) \in Nat \ {0}
  BY DEF TypeOK
<1>2. /\ DOMAIN Tail(buffer[p]) = 1 .. Len(buffer[p]) - 1
      /\ \A k \in 1 .. Len(buffer[p]) - 1 : Tail(buffer[p])[k] = buffer[p][k + 1]
  BY <1>1
<1>3. /\ DOMAIN buffer'[p] = 1 .. Len(buffer[p]) - 1
      /\ \A k \in 1 .. Len(buffer[p]) - 1 : buffer'[p][k] = buffer[p][k + 1]
      /\ \A q \in Partitions : q # p => buffer'[q] = buffer[q]
  BY <1>2 DEF TypeOK
<1>4. h \in Buffered
  BY <1>1 DEF Buffered, ToSet
<1>5. Partition(h) = p /\ h \in Published
  BY <1>1 DEF QueuesInOrder
<1> HIDE DEF h
<1>6. ASSUME NEW r \in Buffered, r # h
      PROVE  r \in Buffered'
  <2> DEFINE q == Partition(r)
  <2>1. q \in Partitions
    BY Placed
  <2>2. PICK k \in DOMAIN buffer[q] : buffer[q][k] = r
    BY Placed
  <2> HIDE DEF q
  <2>3. CASE q # p
    BY <1>3, <2>1, <2>2, <2>3 DEF Buffered, ToSet
  <2>4. CASE q = p
    <3>1. k # 1
      BY <1>1, <1>6, <2>2, <2>4
    <3>2. k - 1 \in 1 .. Len(buffer[p]) - 1 /\ (k - 1) + 1 = k
      BY <1>1, <2>2, <2>4, <3>1
    <3>3. buffer'[p][k - 1] = buffer[p][(k - 1) + 1]
      BY <1>3, <3>2
    <3>4. k - 1 \in DOMAIN buffer'[p] /\ buffer'[p][k - 1] = r
      BY <1>3, <2>2, <2>4, <3>2, <3>3
    <3> QED  BY <3>4 DEF Buffered, ToSet
  <2> QED  BY <2>3, <2>4
<1>7. ASSUME NEW r \in Buffered'
      PROVE  r \in Buffered /\ r # h
  <2>1. PICK q \in Partitions : r \in ToSet(buffer'[q])
    BY <1>7 DEF Buffered
  <2>2. PICK k \in DOMAIN buffer'[q] : buffer'[q][k] = r
    BY <2>1 DEF ToSet
  <2>3. CASE q # p
    <3>1. k \in DOMAIN buffer[q] /\ buffer[q][k] = r
      BY <1>3, <2>2, <2>3
    <3>2. Partition(r) = q
      BY <3>1 DEF QueuesInOrder
    <3> QED  BY <1>5, <2>3, <3>1, <3>2 DEF Buffered, ToSet
  <2>4. CASE q = p
    <3> k \in 1 .. Len(buffer[p]) - 1
      BY <1>3, <2>2, <2>4
    <3>1. k + 1 \in DOMAIN buffer[p] /\ buffer[p][k + 1] = r /\ 1 < k + 1
      BY <1>1, <1>3, <2>2, <2>4
    <3>2. Precedes(h, r)
      BY <1>1, <3>1 DEF QueuesInOrder
    <3> QED  BY <1>5, <3>1, <3>2, NoneBeforeItself DEF Buffered, ToSet
  <2> QED  BY <2>3, <2>4
<1> QED  BY <1>4, <1>6, <1>7 DEF h

\* ... and it is the oldest click of its link that is pending.
LEMMA HeadIsNext ==
  ASSUME TypeOK, QueuesInOrder, NEW p \in Partitions, buffer[p] # <<>>
  PROVE  Promise!InOrder({Head(buffer[p])})
<1> DEFINE h == Head(buffer[p])
<1>1. h = buffer[p][1] /\ 1 \in DOMAIN buffer[p] /\ DOMAIN buffer[p] = 1 .. Len(buffer[p])
  BY DEF TypeOK
<1>2. Partition(h) = p
  BY <1>1 DEF QueuesInOrder
<1>3. ASSUME NEW m \in DOMAIN published, NEW n \in DOMAIN published,
             published[m] = h, published[n] \in Buffered \ {h}, CodeOf[h] = CodeOf[published[n]]
      PROVE  m < n
  <2>1. m \in Nat /\ n \in Nat
    BY DEF TypeOK
  <2>2. Partition(published[n]) = p
    BY <1>2, <1>3 DEF Partition
  <2>3. PICK k \in DOMAIN buffer[p] : buffer[p][k] = published[n]
    BY <1>3, <2>2, Placed
  <2>4. 1 < k
    BY <1>1, <1>3, <2>3
  <2>5. Precedes(h, published[n])
    BY <1>1, <2>3, <2>4 DEF QueuesInOrder
  <2> QED  BY <1>3, <2>1, <2>5 DEF Precedes
<1> QED  BY <1>3 DEF Promise!InOrder

\* A record that is acknowledged is one more click in the topic.
LEMMA HeadIsRead ==
  ASSUME TypeOK, NEW p \in Partitions, buffer[p] # <<>>,
         log' = [log EXCEPT ![p] = Append(@, Head(buffer[p]))]
  PROVE  Delivered' = Delivered \cup {Head(buffer[p])}
<1> DEFINE h == Head(buffer[p])
<1>1. h \in Clicks /\ log[p] \in Seq(Clicks) /\ Len(log[p]) \in Nat
  BY DEF TypeOK
<1>2. log'[p] = Append(log[p], h) /\ \A q \in Partitions : q # p => log'[q] = log[q]
  BY DEF TypeOK
<1> HIDE DEF h
<1>3. /\ DOMAIN log'[p] = 1 .. Len(log[p]) + 1 /\ DOMAIN log[p] = 1 .. Len(log[p])
      /\ log'[p][Len(log[p]) + 1] = h
      /\ \A k \in DOMAIN log[p] : log'[p][k] = log[p][k]
  BY <1>1, <1>2
<1>4. \A x : x \in ToSet(log'[p]) <=> x \in ToSet(log[p]) \/ x = h
  <2>1. \A x : x \in ToSet(log'[p]) <=> \E k \in DOMAIN log'[p] : log'[p][k] = x
    BY DEF ToSet
  <2>2. \A x : x \in ToSet(log[p]) <=> \E k \in DOMAIN log[p] : log[p][k] = x
    BY DEF ToSet
  <2> QED  BY <1>1, <1>3, <2>1, <2>2
<1>5. \A x : x \in Delivered' <=> \E q \in Partitions : x \in ToSet(log'[q])
  BY DEF Delivered
<1>6. \A x : x \in Delivered <=> \E q \in Partitions : x \in ToSet(log[q])
  BY DEF Delivered
<1>7. Delivered' = Delivered \cup {h}
  BY <1>2, <1>4, <1>5, <1>6
<1> QED  BY <1>7 DEF h

\* The pending clicks that are written when the buffer is given up.
Late == Buffered \cap Delivered'

\* They are the first ones of their links (ClickDelivery: GiveUpBuffer).
LEMMA GiveUpIsInOrder ==
  ASSUME TypeOK, QueuesInOrder, GiveUpBuffer
  PROVE  /\ Promise!InOrder(Late) /\ Late \subseteq Buffered
         /\ Delivered' = Delivered \cup Late
         /\ Buffered' = {}
<1>1. \A p \in Partitions :
        /\ DOMAIN log[p] = 1 .. Len(log[p]) /\ Len(log[p]) \in Nat
        /\ DOMAIN buffer[p] = 1 .. Len(buffer[p]) /\ Len(buffer[p]) \in Nat
  BY DEF TypeOK
<1>2. ASSUME NEW r \in Delivered', r \notin Delivered
      PROVE  \E p \in Partitions, n \in Nat : \E j \in 1 .. n : GivesUp(p, n) /\ buffer[p][j] = r
  <2>1. PICK p \in Partitions : r \in ToSet(log'[p])
    BY <1>2 DEF Delivered
  <2>2. PICK k \in DOMAIN log'[p] : log'[p][k] = r
    BY <2>1 DEF ToSet
  <2>3. PICK n \in Nat : GivesUp(p, n)
    BY GivenUp
  <2>4. k \in 1 .. Len(log[p]) + n
    BY <2>2, <2>3 DEF GivesUp
  <2>5. ~(k <= Len(log[p]))
    <3> SUFFICES ASSUME k <= Len(log[p]) PROVE FALSE
      OBVIOUS
    <3>1. k \in DOMAIN log[p] /\ log[p][k] = r
      BY <1>1, <2>2, <2>3, <2>4 DEF GivesUp
    <3> QED  BY <1>2, <3>1 DEF Delivered, ToSet
  <2>6. k - Len(log[p]) \in 1 .. n /\ Len(log[p]) + (k - Len(log[p])) = k
    BY <1>1, <2>4, <2>5
  <2>7. buffer[p][k - Len(log[p])] = r
    BY <2>2, <2>3, <2>6 DEF GivesUp
  <2> QED  BY <2>3, <2>6, <2>7
<1>3. ASSUME NEW r \in Buffered
      PROVE  r \notin Delivered
  <2> SUFFICES ASSUME NEW q \in Partitions, NEW k \in DOMAIN log[q], log[q][k] = r
               PROVE  FALSE
    BY DEF Delivered, ToSet
  <2>1. r \in Published /\ q = Partition(r)
    BY DEF QueuesInOrder
  <2>2. PICK l \in DOMAIN buffer[q] : buffer[q][l] = r
    BY <2>1, Placed
  <2>3. Precedes(r, r)
    BY <2>2 DEF QueuesInOrder
  <2> QED  BY <2>1, <2>3, NoneBeforeItself
<1>4. ASSUME NEW p \in Partitions, NEW n \in Nat, GivesUp(p, n), NEW j \in 1 .. n
      PROVE  j \in DOMAIN buffer[p] /\ buffer[p][j] \in Late
  <2>1. j \in DOMAIN buffer[p]
    BY <1>1, <1>4 DEF GivesUp
  <2>2. Len(log[p]) + j \in DOMAIN log'[p] /\ log'[p][Len(log[p]) + j] = buffer[p][j]
    BY <1>1, <1>4 DEF GivesUp
  <2>3. buffer[p][j] \in Delivered'
    BY <2>2 DEF Delivered, ToSet
  <2>4. buffer[p][j] \in Buffered
    BY <2>1 DEF Buffered, ToSet
  <2> QED  BY <2>1, <2>3, <2>4 DEF Late
<1>5. Delivered' = Delivered \cup Late
  <2>1. ASSUME NEW r \in Delivered', r \notin Delivered
        PROVE  r \in Late
    BY <1>2, <1>4, <2>1
  <2> QED  BY <2>1, GiveUpKeepsDelivered DEF Late
<1>6. Buffered' = {}
  BY DEF GiveUpBuffer, Buffered, ToSet
<1>7. ASSUME NEW m \in DOMAIN published, NEW n \in DOMAIN published,
             published[m] \in Late, published[n] \in Buffered \ Late,
             CodeOf[published[m]] = CodeOf[published[n]]
      PROVE  m < n
  <2>1. published[m] \in Delivered' /\ published[m] \notin Delivered
    BY <1>3, <1>7 DEF Late
  <2>2. PICK p \in Partitions, c \in Nat : \E j \in 1 .. c : GivesUp(p, c) /\ buffer[p][j] = published[m]
    BY <1>2, <2>1
  <2>3. PICK j \in 1 .. c : GivesUp(p, c) /\ buffer[p][j] = published[m]
    BY <2>2
  <2>4. j \in DOMAIN buffer[p]
    BY <1>4, <2>3
  <2>5. Partition(published[n]) = p
    <3>1. Partition(published[m]) = p
      BY <2>3, <2>4 DEF QueuesInOrder
    <3> QED  BY <1>7, <3>1 DEF Partition
  <2>6. PICK l \in DOMAIN buffer[p] : buffer[p][l] = published[n]
    BY <1>7, <2>5, Placed
  <2>7. l \notin 1 .. c
    BY <1>4, <1>7, <2>3, <2>6
  <2>8. j < l
    BY <1>1, <2>3, <2>6, <2>7
  <2>9. Precedes(published[m], published[n])
    BY <2>3, <2>4, <2>6, <2>8 DEF QueuesInOrder
  <2> QED  BY <2>9 DEF Precedes
<1>8. Promise!InOrder(Late)
  BY <1>7 DEF Promise!InOrder
<1> QED  BY <1>5, <1>6, <1>8 DEF Late

\* Every step of the service is a step of the promise (ClickDelivery: Next).
LEMMA ServiceKeepsPromise ==
  ASSUME TypeOK, PublishedOnce, QueuesInOrder, PhasesAgree, LostOnce, ServiceStep
  PROVE  [Promise!Next]_Promise!streamVars
<1> USE DEF Promise!streamVars
<1>1. ASSUME UNCHANGED <<published, buffer, log, main, why>>
      PROVE  Buffered' = Buffered /\ Delivered' = Delivered /\ Running' = Running
  BY <1>1 DEF Buffered, Delivered, Running
<1>2. \A r : r \in Promise!Taken <=> r \in Published
  BY DEF Promise!Taken, Promise!Range, Published, ToSet
<1>3. CASE \E r \in Clicks : HandlerMoves(r)
  <2> PICK r \in Clicks : HandlerMoves(r)
    BY <1>3
  <2>1. UNCHANGED <<published, buffer, log, main, why>> /\ Running /\ handler[r] # "clicked"
    BY DEF HandlerMoves, RunVars, Active
  <2>2. CASE reported' = reported
    BY <1>1, <2>1, <2>2
  <2>3. CASE reported' = reported \cup {r}
    <3>1. r \notin Promise!Taken
      BY <1>2, <2>1 DEF PublishedOnce
    <3>2. r \notin Buffered
      BY <2>1, BufferedPublished DEF PublishedOnce
    <3>3. Promise!InOrder({})
      BY DEF Promise!InOrder
    <3>4. Promise!Lose({r}, {})
      BY <1>1, <2>1, <2>3, <3>1, <3>2, <3>3 DEF Promise!Lose
    <3> QED  BY <3>4 DEF Promise!Next
  <2> QED  BY <2>2, <2>3 DEF HandlerMoves
<1>4. CASE \E r \in Clicks : Publish(r)
  <2> PICK r \in Clicks : Publish(r)
    BY <1>4
  <2> DEFINE p == Partition(r)
  <2>1. /\ p \in Partitions /\ UNCHANGED <<main, why, log, reported>> /\ Running
        /\ buffer' = [buffer EXCEPT ![p] = Append(@, r)]
        /\ published' = Append(published, r) /\ handler[r] = "publish"
    BY ClickDeliveryAssumption DEF Publish, Partition, RunVars
  <2> HIDE DEF p
  <2>2. r \notin Promise!Taken /\ r \notin reported
    BY <1>2, <2>1 DEF PublishedOnce, LostOnce
  <2>3. Buffered' = Buffered \cup {r}
    <3>1. buffer[p] \in Seq(Clicks) /\ buffer'[p] = Append(buffer[p], r)
          /\ \A q \in Partitions : q # p => buffer'[q] = buffer[q]
      BY <2>1 DEF TypeOK
    <3>2. /\ DOMAIN buffer[p] = 1 .. Len(buffer[p]) /\ Len(buffer[p]) \in Nat
          /\ DOMAIN buffer'[p] = 1 .. Len(buffer[p]) + 1
          /\ buffer'[p][Len(buffer[p]) + 1] = r
          /\ \A k \in DOMAIN buffer[p] : buffer'[p][k] = buffer[p][k]
      BY <3>1
    <3>3. \A x : x \in ToSet(buffer[p]) <=> \E k \in DOMAIN buffer[p] : buffer[p][k] = x
      BY DEF ToSet
    <3>4. \A x : x \in ToSet(buffer'[p]) <=> \E k \in DOMAIN buffer'[p] : buffer'[p][k] = x
      BY DEF ToSet
    <3>5. \A x : x \in ToSet(buffer'[p]) <=> x \in ToSet(buffer[p]) \/ x = r
      BY <3>2, <3>3, <3>4
    <3>6. \A x : x \in Buffered <=> \E q \in Partitions : x \in ToSet(buffer[q])
      BY DEF Buffered
    <3>7. \A x : x \in Buffered' <=> \E q \in Partitions : x \in ToSet(buffer'[q])
      BY DEF Buffered
    <3> QED  BY <2>1, <3>1, <3>5, <3>6, <3>7
  <2>4. Delivered' = Delivered /\ Running' = Running
    BY <2>1 DEF Delivered, Running
  <2>5. Promise!Take(r)
    BY <2>1, <2>2, <2>3, <2>4 DEF Promise!Take
  <2> QED  BY <2>5 DEF Promise!Next
<1>5. CASE \E p \in Partitions : Deliver(p)
  <2> PICK p \in Partitions : Deliver(p)
    BY <1>5
  <2> DEFINE h == Head(buffer[p])
  <2>1. /\ buffer[p] # <<>> /\ Running /\ UNCHANGED <<main, why, reported, published>>
        /\ log' = [log EXCEPT ![p] = Append(@, Head(buffer[p]))]
        /\ buffer' = [buffer EXCEPT ![p] = Tail(@)]
    BY DEF Deliver, RunVars
  <2>2. h \in Buffered /\ Buffered' = Buffered \ {h} /\ Promise!InOrder({h})
    BY <2>1, HeadGoes, HeadIsNext
  <2>3. Delivered' = Delivered \cup {h}
    BY <2>1, HeadIsRead
  <2>4. h \in Clicks /\ Running' = Running
    BY <2>1 DEF TypeOK, Running
  <2> HIDE DEF h
  <2>5. Promise!Read(h)
    BY <2>1, <2>2, <2>3, <2>4 DEF Promise!Read
  <2> QED  BY <2>4, <2>5 DEF Promise!Next
<1>6. CASE \E p \in Partitions : Refused(p)
  <2> PICK p \in Partitions : Refused(p)
    BY <1>6
  <2> DEFINE h == Head(buffer[p])
  <2>1. /\ buffer[p] # <<>> /\ Running /\ UNCHANGED <<main, why, log, published>>
        /\ reported' = reported \cup {h}
        /\ buffer' = [buffer EXCEPT ![p] = Tail(@)]
    BY DEF Refused, RunVars
  <2>2. h \in Buffered /\ Buffered' = Buffered \ {h}
    BY <2>1, HeadGoes
  <2>3. h \in Clicks /\ Running' = Running /\ Delivered' = Delivered
    BY <2>1 DEF TypeOK, Running, Delivered
  <2> HIDE DEF h
  <2>4. Promise!InOrder({})
    BY DEF Promise!InOrder
  <2>5. Promise!Lose({h}, {})
    BY <2>1, <2>2, <2>3, <2>4 DEF Promise!Lose
  <2> QED  BY <2>3, <2>5 DEF Promise!Next
<1>7. CASE KafkaChanges
  BY <1>1, <1>7 DEF KafkaChanges, RunVars
<1>8. CASE MainMoves
  <2>1. Running /\ Running' /\ UNCHANGED <<published, buffer, log, reported>>
    BY <1>8 DEF MainMoves, Proceed, ClickVars, Running
  <2> QED  BY <2>1 DEF Buffered, Delivered
<1>9. CASE Close
  <2>1. Running /\ Running' /\ UNCHANGED published /\ reported' = reported \cup Buffered /\ GiveUpBuffer
    BY <1>9 DEF Close, Proceed, Running
  <2>2. Buffered \subseteq Clicks
    BY DEF Buffered, TypeOK, ToSet
  <2>3. Promise!Lose(Buffered, Late)
    BY <2>1, GiveUpIsInOrder DEF Promise!Lose
  <2> QED  BY <2>2, <2>3 DEF Promise!Next, Late
<1>10. CASE Exit \/ Crash
  <2>1. /\ Running /\ ~Running' /\ UNCHANGED <<published, reported>> /\ GiveUpBuffer
        /\ why' = "kill" \/ (main = "unwind" /\ why' = why)
    BY <1>10 DEF Exit, Crash, Vanish, Running
  <2>2. why' \notin {"deadline", "kill"} => Buffered = {}
    BY <2>1 DEF PhasesAgree, ProducerClosed, Buffered, ToSet
  <2>3. Buffered \subseteq Clicks
    BY DEF Buffered, TypeOK, ToSet
  <2>4. Promise!End(Late)
    BY <2>1, <2>2, GiveUpIsInOrder DEF Promise!End
  <2> QED  BY <2>3, <2>4 DEF Promise!Next, Late
<1> QED  BY <1>3, <1>4, <1>5, <1>6, <1>7, <1>8, <1>9, <1>10, Kinds

\* A process with any number of clicks, links, partitions and connections, started
\* with any settings and stopped in any way, keeps the contract of its producer
\* (producer.go: the package comment, Publish and Close).
THEOREM ProcessImplementsClickStream == ProcessSpec => ImplementsClickStream
<1>1. ProcessInit => Promise!Init
  BY DEF ProcessInit, Init, Promise!Init, Buffered, Delivered, Running, ToSet
<1>2. IInv /\ [ProcessNext]_processVars => [Promise!Next]_Promise!streamVars
  <2> SUFFICES ASSUME IInv, [ProcessNext]_processVars
               PROVE  [Promise!Next]_Promise!streamVars
    OBVIOUS
  <2>1. CASE UNCHANGED vars
    BY <2>1 DEF vars, Promise!streamVars, Buffered, Delivered, Running
  <2>2. CASE SelectSignal \/ InService(Work) \/ \E r \in Clicks : SkipClick(r)
    <3>1. ServiceStep
      BY <2>2 DEF SelectSignal, InService, ServiceStep, Next
    <3> QED  BY <3>1, ServiceKeepsPromise DEF IInv
  <2> QED  BY <2>1, <2>2 DEF ProcessNext, processVars, StartStep, SignalArrives
<1> QED  BY <1>1, <1>2, Invariance, PTL DEF ProcessSpec, ImplementsClickStream, Promise!Spec

\* What ClickStream promises, a step at a time, amounts to what it is relied on for.
LEMMA PromiseSettles ==
  ASSUME published \in Seq(Clicks), Promise!Settles, [Promise!Next]_Promise!streamVars
  PROVE  Promise!Settles'
<1> DEFINE Taken == Promise!Taken
           end == IF Running THEN "open" ELSE IF why \in {"deadline", "kill"} THEN "forced" ELSE "clean"
<1>1. /\ Buffered \cup Delivered \subseteq Taken
      /\ Buffered \cap (Delivered \cup reported) = {}
      /\ end # "forced" => Taken \subseteq Buffered \cup Delivered \cup reported
      /\ \A m, n \in DOMAIN published :
           published[m] \in Delivered /\ published[n] \in Buffered /\ CodeOf[published[m]] = CodeOf[published[n]]
             => m < n
  BY DEF Promise!Settles
<1>2. ASSUME
      /\ Buffered' \cup Delivered' \subseteq Taken'
      /\ Buffered' \cap (Delivered' \cup reported') = {}
      /\ end' # "forced" => Taken' \subseteq Buffered' \cup Delivered' \cup reported'
      /\ \A m, n \in DOMAIN published' :
           published'[m] \in Delivered' /\ published'[n] \in Buffered' /\ CodeOf[published'[m]] = CodeOf[published'[n]]
             => m < n
      PROVE  Promise!Settles'
  BY <1>2 DEF Promise!Settles
<1>3. \A r : r \in Taken <=> \E n \in DOMAIN published : published[n] = r
  BY DEF Promise!Taken, Promise!Range
<1>4. \A r : r \in Taken' <=> \E n \in DOMAIN published' : published'[n] = r
  BY DEF Promise!Taken, Promise!Range
<1>5. published' = published => Taken' = Taken
  BY DEF Promise!Taken, Promise!Range
<1>6. CASE UNCHANGED Promise!streamVars
  <2>1. UNCHANGED <<published, Buffered, Delivered, reported, end>>
    BY <1>6 DEF Promise!streamVars
  <2> HIDE DEF Taken, end
  <2> QED  BY <1>1, <1>2, <1>5, <2>1
<1>7. ASSUME NEW r \in Clicks, Promise!Take(r)
      PROVE  Promise!Settles'
  <2>1. /\ r \notin Taken \cup reported /\ published' = Append(published, r)
        /\ Buffered' = Buffered \cup {r} /\ UNCHANGED <<Delivered, reported, end>>
    BY <1>7 DEF Promise!Take
  <2> HIDE DEF Taken, end
  <2>2. /\ DOMAIN published' = 1 .. Len(published) + 1 /\ DOMAIN published = 1 .. Len(published)
        /\ Len(published) \in Nat /\ published'[Len(published) + 1] = r
        /\ \A n \in DOMAIN published : published'[n] = published[n]
    BY <2>1
  <2>3. Taken' = Taken \cup {r}
    BY <1>3, <1>4, <2>2
  <2>4. ASSUME NEW m \in DOMAIN published', NEW n \in DOMAIN published',
               published'[m] \in Delivered', published'[n] \in Buffered',
               CodeOf[published'[m]] = CodeOf[published'[n]]
        PROVE  m < n
    <3>1. published'[m] # r
      BY <1>1, <2>1, <2>4
    <3>2. m \in DOMAIN published /\ published'[m] = published[m]
      BY <2>2, <3>1
    <3>3. CASE n = Len(published) + 1
      BY <2>2, <3>2, <3>3
    <3>4. CASE n \in DOMAIN published
      <4>1. published[n] \in Taken /\ published'[n] = published[n]
        BY <1>3, <2>2, <3>4
      <4>2. published[n] \in Buffered
        BY <2>1, <2>4, <4>1
      <4> QED  BY <1>1, <2>1, <2>4, <3>2, <3>4, <4>1, <4>2
    <3> QED  BY <2>2, <3>3, <3>4
  <2> QED  BY <1>1, <1>2, <2>1, <2>3, <2>4
<1>8. ASSUME NEW r \in Clicks, Promise!Read(r)
      PROVE  Promise!Settles'
  <2>1. /\ r \in Buffered /\ UNCHANGED <<published, reported, end>>
        /\ Delivered' = Delivered \cup {r} /\ Buffered' = Buffered \ {r}
        /\ \A m, n \in DOMAIN published :
             published[m] = r /\ published[n] \in Buffered \ {r} /\ CodeOf[published[m]] = CodeOf[published[n]]
               => m < n
    BY <1>8 DEF Promise!Read, Promise!InOrder
  <2> HIDE DEF Taken, end
  <2> QED  BY <1>1, <1>2, <1>5, <2>1
<1>9. ASSUME NEW some \in SUBSET Clicks, NEW got \in SUBSET Clicks, Promise!Lose(some, got)
      PROVE  Promise!Settles'
  <2>1. /\ UNCHANGED <<published, end>> /\ reported' = reported \cup some
        /\ some \subseteq Buffered \/ some \cap Taken = {}
        /\ got \subseteq some \cap Buffered
        /\ Delivered' = Delivered \cup got /\ Buffered' = Buffered \ some
        /\ \A m, n \in DOMAIN published :
             published[m] \in got /\ published[n] \in Buffered \ got /\ CodeOf[published[m]] = CodeOf[published[n]]
               => m < n
    BY <1>9 DEF Promise!Lose, Promise!InOrder
  <2> HIDE DEF Taken, end
  <2> QED  BY <1>1, <1>2, <1>5, <2>1
<1>10. ASSUME NEW got \in SUBSET Clicks, Promise!End(got)
       PROVE  Promise!Settles'
  <2>1. /\ UNCHANGED <<published, reported>> /\ end = "open"
        /\ end' # "forced" => Buffered = {}
        /\ got \subseteq Buffered /\ Delivered' = Delivered \cup got /\ Buffered' = {}
    BY <1>10 DEF Promise!End
  <2> HIDE DEF Taken, end
  <2> QED  BY <1>1, <1>2, <1>5, <2>1
<1> QED  BY <1>6, <1>7, <1>8, <1>9, <1>10 DEF Promise!Next

\* So a click has one end in every process: once it is in the topic or in the log of
\* losses it is pending no more, and nothing of its link that was taken before it is
\* written later (producer.go: the package comment and Publish).
THEOREM ClicksSettle == ProcessSpec => []Promise!Settles
<1>1. ProcessInit => Promise!Settles
  BY DEF ProcessInit, Init, Promise!Settles, Promise!Taken, Promise!Range, Buffered, Delivered, ToSet
<1>2. IInv /\ Promise!Settles /\ [Promise!Next]_Promise!streamVars => Promise!Settles'
  BY PromiseSettles DEF IInv, TypeOK
<1>3. ProcessSpec => [][Promise!Next]_Promise!streamVars
  BY ProcessImplementsClickStream, PTL DEF ImplementsClickStream, Promise!Spec
<1> QED  BY <1>1, <1>2, <1>3, Invariance, PTL DEF ProcessSpec

=============================================================================
