--------------------------- MODULE HttpApi_proofs ---------------------------
(***************************************************************************)
(* Proofs about HttpApi: what is logged, whom a protected handler acts for *)
(* and what /healthz says, for every number of requests, tokens and        *)
(* dependencies.  The invariant speaks of one request at a time, so a step *)
(* of a request is checked against that request only.                      *)
(***************************************************************************)
EXTENDS HttpApi, TLAPS

\* The invariant, of one request.
Recorder(r) ==
  /\ pc[r] \in {"none", "auth", "handle", "ping"} => sent[r] = None
  /\ pc[r] \in {"tail", "return"} => sent[r] = recorded[r]
  /\ pc[r] # "done" => logged[r] = None
  /\ logged[r] \in Statuses => logged[r] = sent[r]

Router(r) ==
  /\ pc[r] = "none" => verdict[r] = None /\ left[r] = Deps /\ ctx[r] = None
  /\ route[r] = "healthz" => pc[r] \in {"ping", "return", "done"}
  /\ route[r] \in Protected => pc[r] \in {"auth", "handle", "return", "done"}
  /\ pc[r] = "auth" => route[r] \in Protected
  /\ verdict[r] # None => token[r] # None /\ verdict[r] \in {OwnerOf[token[r]], "invalid"}
  /\ route[r] \in Protected /\ (pc[r] = "handle" \/ sent[r] \in Answers(route[r]) \ {500}) =>
       token[r] # None /\ verdict[r] = OwnerOf[token[r]] /\ user[r] = verdict[r]

\* What has been found of a dependency is so.
Found(r, d) ==
  IF report[r][d] = "ok" THEN d \in upOnce[r] ELSE d \notin upAlways[r] \/ ctx[r] # None

Pings(r) ==
  /\ pc[r] = "ping" =>
       /\ upAlways[r] \subseteq up /\ up \subseteq upOnce[r]
       /\ \A d \in Deps \ left[r] : Found(r, d)
  /\ route[r] = "healthz" =>
       /\ sent[r] = 200 => upOnce[r] = Deps
       /\ sent[r] = 503 => upAlways[r] # Deps \/ ctx[r] # None
       /\ sent[r] \in {200, 503} => \A d \in Deps : Found(r, d)

LEMMA Parts ==
  IInv <=> TypeOK /\ \A r \in Reqs : Recorder(r) /\ Router(r) /\ Pings(r)
<1>1. (\A r \in Reqs : Recorder(r)) <=> RecorderAgrees /\ LoggedAsSent
  BY DEF Recorder, RecorderAgrees, LoggedAsSent
<1>2. (\A r \in Reqs : Router(r)) <=> RoutesKept /\ ActsForOwner
  BY DEF Router, RoutesKept, ActsForOwner
<1>3. (\A r \in Reqs : Pings(r)) <=> PingsAreHonest /\ HealthIsHonest
  BY DEF Pings, Found, PingsAreHonest, HealthIsHonest
<1>4. QED BY <1>1, <1>2, <1>3 DEF IInv

\* A request that a step does not touch.
Untouched(q) ==
  /\ pc'[q] = pc[q] /\ route'[q] = route[q] /\ token'[q] = token[q]
  /\ verdict'[q] = verdict[q] /\ user'[q] = user[q]
  /\ sent'[q] = sent[q] /\ recorded'[q] = recorded[q] /\ logged'[q] = logged[q]
  /\ left'[q] = left[q] /\ report'[q] = report[q] /\ ctx'[q] = ctx[q]
  /\ upAlways'[q] = upAlways[q] /\ upOnce'[q] = upOnce[q]

\* A step of one request keeps the invariant if it does for that request.
LEMMA RequestStep ==
  ASSUME IInv, NEW r \in Reqs, TypeOK', up' = up,
         \A q \in Reqs : q # r => Untouched(q),
         Recorder(r)', Router(r)', Pings(r)'
  PROVE  IInv'
<1>1. ASSUME NEW q \in Reqs PROVE (Recorder(q) /\ Router(q) /\ Pings(q))'
  <2>1. CASE q = r BY <2>1
  <2>2. CASE q # r
    <3>1. Untouched(q) /\ Recorder(q) /\ Router(q) /\ Pings(q) BY <2>2, Parts
    <3>2. QED BY <3>1 DEF Untouched, Recorder, Router, Pings, Found
  <2>3. QED BY <2>1, <2>2
<1>2. (RecorderAgrees /\ LoggedAsSent)'
  BY <1>1 DEF Recorder, RecorderAgrees, LoggedAsSent
<1>3. (RoutesKept /\ ActsForOwner)'
  BY <1>1 DEF Router, RoutesKept, ActsForOwner
<1>4. (PingsAreHonest /\ HealthIsHonest)'
  BY <1>1 DEF Pings, Found, PingsAreHonest, HealthIsHonest
<1>5. QED BY <1>2, <1>3, <1>4 DEF IInv

LEMMA InitInvariant == ASSUME Init PROVE IInv
<1> USE DEF Init
<1>1. \A r \in Reqs : Deps \ left[r] = {} /\ DOMAIN report[r] = {}
  OBVIOUS
<1>2. <<>> \in Reported
  <2>1. <<>> \in [{} -> Findings] OBVIOUS
  <2>2. QED BY <2>1 DEF Reported
<1>3. TypeOK
  BY <1>1, <1>2 DEF TypeOK, Labels, Routes, Statuses
<1>4. \A r \in Reqs : Recorder(r) /\ Router(r) /\ Pings(r)
  BY HttpApiAssumption DEF Recorder, Router, Pings, Statuses, Answers, Protected
<1>5. QED BY <1>3, <1>4, Parts

-----------------------------------------------------------------------------
\* A request comes in, with nothing of it known yet.
LEMMA ArriveStep == ASSUME IInv, NEW r \in Reqs, Arrive(r) PROVE IInv'
<1> USE DEF Arrive, GoTo, Health
<1>1. TypeOK /\ Recorder(r) /\ Router(r) /\ Pings(r) BY Parts
<1>2. TypeOK'
  <2>1. route' \in [Reqs -> Routes] /\ token' \in [Reqs -> Tokens \cup {None}]
    BY <1>1 DEF TypeOK
  <2>2. pc' \in [Reqs -> Labels] BY <1>1 DEF TypeOK, Labels
  <2>3. upAlways' \in [Reqs -> SUBSET Deps] /\ upOnce' \in [Reqs -> SUBSET Deps]
    BY <1>1 DEF TypeOK
  <2>4. QED BY <1>1, <2>1, <2>2, <2>3 DEF TypeOK
<1>3. \A q \in Reqs : q # r => Untouched(q) BY <1>1 DEF Untouched, TypeOK
<1>4. Recorder(r)' BY <1>1 DEF Recorder, TypeOK
<1>5. /\ route'[r] \in Routes
      /\ pc'[r] = (CASE route'[r] \in Protected -> "auth"
                     [] route'[r] = "healthz" -> "ping" [] OTHER -> "handle")
      /\ route'[r] = "healthz" => upAlways'[r] = up /\ upOnce'[r] = up
  BY <1>1 DEF TypeOK
<1>6. /\ verdict'[r] = None /\ sent'[r] = None /\ left'[r] = Deps /\ ctx'[r] = None
      /\ up' = up /\ None \notin Nat
  BY <1>1, HttpApiAssumption DEF Router, Recorder
<1>7. Router(r)' BY <1>5, <1>6 DEF Router, Protected, Routes, Answers
<1>8. Pings(r)' BY <1>5, <1>6 DEF Pings, Protected
<1>9. QED BY <1>2, <1>3, <1>4, <1>7, <1>8, RequestStep

\* A request that ends in a 401 or a 503 of BearerAuth.
LEMMA TurnedAwayStep ==
  ASSUME IInv, NEW r \in Reqs, NEW status \in {401, 503},
         pc[r] = "auth", WriteHeader(r, status), GoTo(r, "return"),
         UNCHANGED <<Auth, logged, Health, World>>
  PROVE  IInv'
<1> USE DEF WriteHeader, GoTo, Health, Auth, World
<1>1. TypeOK /\ Recorder(r) /\ Router(r) /\ Pings(r) BY Parts
<1>2. TypeOK'
  <2>1. sent' \in [Reqs -> Statuses \cup {None}] /\ recorded' \in [Reqs -> Statuses]
    BY <1>1 DEF TypeOK, Statuses
  <2>2. pc' \in [Reqs -> Labels] BY <1>1 DEF TypeOK, Labels
  <2>3. QED BY <1>1, <2>1, <2>2 DEF TypeOK
<1>3. \A q \in Reqs : q # r => Untouched(q) BY <1>1 DEF Untouched, TypeOK
<1>4. Recorder(r)'
  <2>1. sent[r] = None /\ logged[r] = None BY <1>1 DEF Recorder
  <2>2. sent'[r] = status /\ recorded'[r] = status /\ pc'[r] = "return" /\ logged'[r] = None
    BY <1>1, <2>1 DEF TypeOK
  <2>3. QED BY <2>2, HttpApiAssumption DEF Recorder, Statuses
<1>5. Router(r)' BY <1>1 DEF Router, Recorder, TypeOK, Protected, Answers
<1>6. Pings(r)' BY <1>1 DEF Pings, Router, Protected, TypeOK
<1>7. QED BY <1>2, <1>3, <1>4, <1>5, <1>6, RequestStep

\* The Auth service answers a request that has a token.
LEMMA JudgeStep == ASSUME IInv, NEW r \in Reqs, Judge(r) PROVE IInv'
<1> USE DEF Judge, Health, World
<1>1. TypeOK /\ Recorder(r) /\ Router(r) /\ Pings(r) BY Parts
<1>2. token[r] \in Tokens => OwnerOf[token[r]] \in Users BY HttpApiAssumption
<1>3. TypeOK' BY <1>1, <1>2 DEF TypeOK
<1>4. \A q \in Reqs : q # r => Untouched(q) BY <1>1 DEF Untouched, TypeOK
<1>5. Recorder(r)' BY <1>1 DEF Recorder
<1>6. Router(r)'
  BY <1>1, HttpApiAssumption DEF Router, Recorder, TypeOK, Protected, Answers
<1>7. Pings(r)' BY <1>1 DEF Pings, Found
<1>8. QED BY <1>3, <1>4, <1>5, <1>6, <1>7, RequestStep

\* The verdict is a user: the handler acts for the owner of the token.
LEMMA AdmitStep == ASSUME IInv, NEW r \in Reqs, Admit(r) PROVE IInv'
<1> USE DEF Admit, GoTo, Health, World
<1>1. TypeOK /\ Recorder(r) /\ Router(r) /\ Pings(r) BY Parts
<1>2. TypeOK' BY <1>1 DEF TypeOK, Labels
<1>3. \A q \in Reqs : q # r => Untouched(q) BY <1>1 DEF Untouched, TypeOK
<1>4. Recorder(r)' BY <1>1 DEF Recorder, TypeOK
<1>5. verdict[r] = OwnerOf[token[r]] /\ token[r] # None /\ route[r] \in Protected
  BY <1>1, HttpApiAssumption DEF Router
<1>6. user'[r] = verdict[r] /\ pc'[r] = "handle" BY <1>1 DEF TypeOK
<1>7. Router(r)' BY <1>1, <1>5, <1>6 DEF Router, Protected
<1>8. Pings(r)' BY <1>1, <1>6 DEF Pings, Found
<1>9. QED BY <1>2, <1>3, <1>4, <1>7, <1>8, RequestStep

\* A handler of links answers; no such handler writes a status BearerAuth writes.
LEMMA AnswerStep == ASSUME IInv, NEW r \in Reqs, Answer(r) PROVE IInv'
<1> USE DEF WriteHeader, GoTo, Health, Auth, World
<1>1. TypeOK /\ Recorder(r) /\ Router(r) /\ Pings(r) BY Parts
<1>2. PICK status \in Answers(route[r]) :
        /\ pc[r] = "handle"
        /\ WriteHeader(r, status)
        /\ GoTo(r, IF status = 302 THEN "tail" ELSE "return")
        /\ UNCHANGED <<Auth, logged, Health, World>>
  BY DEF Answer
<1>3. status \in Statuses BY <1>1 DEF Answers, Statuses, TypeOK, Routes, Protected
<1>4. TypeOK' BY <1>1, <1>2, <1>3 DEF TypeOK, Labels
<1>5. \A q \in Reqs : q # r => Untouched(q) BY <1>1, <1>2 DEF Untouched, TypeOK
<1>6. Recorder(r)'
  <2>1. sent[r] = None /\ logged[r] = None BY <1>1, <1>2 DEF Recorder
  <2>2. /\ sent'[r] = status /\ recorded'[r] = status /\ logged'[r] = None
        /\ pc'[r] \in {"tail", "return"}
    BY <1>1, <1>2, <2>1 DEF TypeOK
  <2>3. QED BY <2>2, HttpApiAssumption DEF Recorder, Statuses
<1>7. route[r] \in Protected => status # 302 BY DEF Protected, Answers
<1>8. route[r] # "healthz" /\ pc'[r] \in {"tail", "return"} BY <1>1, <1>2 DEF Router, TypeOK
<1>9. Router(r)' BY <1>1, <1>2, <1>7, <1>8 DEF Router, TypeOK
<1>10. Pings(r)' BY <1>2, <1>8 DEF Pings
<1>11. QED BY <1>2, <1>4, <1>5, <1>6, <1>9, <1>10, RequestStep

\* The click of a redirect is published, or the request leaves its log line.
LEMMA LastSteps ==
  ASSUME IInv, NEW r \in Reqs, PublishClick(r) \/ Log(r)
  PROVE  IInv'
<1> USE DEF PublishClick, Log, GoTo, Health, Auth, World
<1>1. TypeOK /\ Recorder(r) /\ Router(r) /\ Pings(r) BY Parts
<1>2. TypeOK' BY <1>1 DEF TypeOK, Labels
<1>3. \A q \in Reqs : q # r => Untouched(q) BY <1>1 DEF Untouched, TypeOK
<1>4. pc'[r] \in {"return", "done"} /\ (pc[r] = "tail" => route[r] \notin Protected)
  BY <1>1 DEF TypeOK, Router
<1>5. Recorder(r)' BY <1>1 DEF Recorder, TypeOK
<1>6. Router(r)' BY <1>1, <1>4 DEF Router
<1>7. Pings(r)' BY <1>1, <1>4 DEF Pings, Found
<1>8. QED BY <1>2, <1>3, <1>5, <1>6, <1>7, RequestStep

\* A panic: 500 if nothing was written, and a line that is not of the request log.
LEMMA PanicStep == ASSUME IInv, NEW r \in Reqs, Panic(r) PROVE IInv'
<1>0. PanicLine \notin Statuses BY HttpApiAssumption DEF Statuses
<1> USE DEF Panic, GoTo, Auth, World
<1>1. TypeOK /\ Recorder(r) /\ Router(r) /\ Pings(r) BY Parts
<1>2. TypeOK'
  <2>1. sent' \in [Reqs -> Statuses \cup {None}] /\ logged' \in [Reqs -> Statuses \cup {PanicLine, None}]
    BY <1>1 DEF TypeOK, Statuses
  <2>2. pc' \in [Reqs -> Labels] BY <1>1 DEF TypeOK, Labels
  <2>3. left' \in [Reqs -> SUBSET Deps] /\ ctx' \in [Reqs -> Ends \cup {None}]
    BY <1>1 DEF TypeOK
  <2>4. <<>> \in Reported /\ DOMAIN <<>> = {}
    <3>1. <<>> \in [{} -> Findings] OBVIOUS
    <3>2. QED BY <3>1 DEF Reported
  <2>5. report' \in [Reqs -> Reported] BY <1>1, <2>4 DEF TypeOK
  <2>6. ASSUME NEW q \in Reqs PROVE DOMAIN report'[q] = Deps \ left'[q]
    <3>1. CASE q = r
      <4>1. report'[q] = <<>> /\ left'[q] = Deps BY <1>1, <3>1 DEF TypeOK
      <4>2. QED BY <2>4, <4>1
    <3>2. CASE q # r
      <4>1. report'[q] = report[q] /\ left'[q] = left[q] BY <1>1, <3>2 DEF TypeOK
      <4>2. QED BY <1>1, <4>1 DEF TypeOK
    <3>3. QED BY <3>1, <3>2
  <2>7. QED BY <1>1, <2>1, <2>2, <2>3, <2>5, <2>6 DEF TypeOK
<1>3. \A q \in Reqs : q # r => Untouched(q) BY <1>1 DEF Untouched, TypeOK
<1>4. pc'[r] = "done" /\ sent'[r] = (IF sent[r] = None THEN 500 ELSE sent[r])
      /\ logged'[r] = PanicLine
  <2>1. DOMAIN pc = Reqs /\ DOMAIN sent = Reqs /\ DOMAIN logged = Reqs BY <1>1 DEF TypeOK
  <2>2. QED BY <2>1
<1>5. Recorder(r)' BY <1>0, <1>4 DEF Recorder
<1>6. Router(r)' BY <1>1, <1>4 DEF Router
<1>7. Pings(r)'
  <2>1. route[r] = "healthz" => pc[r] = "ping" BY <1>1 DEF Router
  <2>2. route[r] = "healthz" => sent'[r] = 500 BY <1>1, <1>4, <2>1 DEF Recorder
  <2>3. QED BY <1>4, <2>2 DEF Pings
<1>8. QED BY <1>2, <1>3, <1>5, <1>6, <1>7, RequestStep

-----------------------------------------------------------------------------
\* A ping tells the truth unless its context was done, or was done by then.
LEMMA PingStep ==
  ASSUME IInv, NEW r \in Reqs, PingOk(r) \/ PingFails(r) \/ PingTooLate(r)
  PROVE  IInv'
<1> USE DEF Auth, World
<1>1. TypeOK /\ Recorder(r) /\ Router(r) /\ Pings(r) BY Parts
<1>2. PICK d \in left[r], finding \in Findings, end \in Ends \cup {None} :
        /\ pc[r] = "ping" /\ Reports(r, d, finding)
        /\ ctx' = [ctx EXCEPT ![r] = end] /\ (ctx[r] # None => end # None)
        /\ IF finding = "ok" THEN d \in up ELSE d \notin up \/ end # None
        /\ UNCHANGED <<pc, Auth, sent, recorded, logged, World>>
  <2>1. ctx = [ctx EXCEPT ![r] = ctx[r]] /\ ctx[r] \in Ends \cup {None} /\ DOMAIN ctx = Reqs
    BY <1>1 DEF TypeOK
  <2>2. CASE PingOk(r) BY <2>1, <2>2 DEF PingOk, TimePasses, Findings
  <2>3. CASE PingFails(r) BY <2>1, <2>3 DEF PingFails, TimePasses, Findings
  <2>4. CASE PingTooLate(r) BY <2>1, <2>4 DEF PingTooLate, Findings
  <2>5. QED BY <2>2, <2>3, <2>4
<1>3. d \in Deps BY <1>1, <1>2 DEF TypeOK
<1>4. /\ left'[r] = left[r] \ {d} /\ ctx'[r] = end
      /\ report'[r] = [e \in (Deps \ left[r]) \cup {d} |-> IF e = d THEN finding ELSE report[r][e]]
      /\ \A q \in Reqs : q # r =>
           left'[q] = left[q] /\ report'[q] = report[q] /\ ctx'[q] = ctx[q]
  <2>1. DOMAIN report = Reqs
    BY <1>1 DEF TypeOK
  <2>2. QED BY <1>1, <1>2, <2>1 DEF Reports, TypeOK
<1>5. Deps \ left'[r] = (Deps \ left[r]) \cup {d} BY <1>2, <1>3, <1>4
<1>6. report'[r] \in Reported /\ DOMAIN report'[r] = Deps \ left'[r]
  <2>1. report[r] \in Reported /\ DOMAIN report[r] = Deps \ left[r] BY <1>1 DEF TypeOK
  <2>2. PICK asked \in SUBSET Deps : report[r] \in [asked -> Findings] BY <2>1 DEF Reported
  <2>3. report'[r] \in [Deps \ left'[r] -> Findings]
    BY <1>2, <1>4, <1>5, <2>1, <2>2
  <2>4. Deps \ left'[r] \in SUBSET Deps OBVIOUS
  <2>5. QED BY <2>3, <2>4 DEF Reported
<1>7. TypeOK'
  <2>1. left' \in [Reqs -> SUBSET Deps] /\ ctx' \in [Reqs -> Ends \cup {None}]
    BY <1>1, <1>2 DEF Reports, TypeOK
  <2>2. \A q \in Reqs : report'[q] \in Reported /\ DOMAIN report'[q] = Deps \ left'[q]
    BY <1>1, <1>4, <1>6 DEF TypeOK
  <2>3. DOMAIN report' = Reqs /\ report' = [q \in Reqs |-> report'[q]]
    BY <1>1, <1>2 DEF Reports, TypeOK
  <2>4. report' \in [Reqs -> Reported] BY <2>2, <2>3
  <2>5. QED BY <1>1, <1>2, <2>1, <2>2, <2>4 DEF TypeOK
<1>8. \A q \in Reqs : q # r => Untouched(q) BY <1>2, <1>4 DEF Untouched
<1>9. Recorder(r)' BY <1>1, <1>2 DEF Recorder
<1>10. Router(r)' BY <1>1, <1>2, <1>4 DEF Router
<1>11. Pings(r)'
  <2>1. upAlways[r] \subseteq up /\ up \subseteq upOnce[r] BY <1>1, <1>2 DEF Pings
  <2>2. ASSUME NEW e \in Deps \ left'[r] PROVE Found(r, e)'
    <3>1. CASE e = d
      <4>1. report'[r][e] = finding BY <1>4, <1>5, <3>1
      <4>2. QED BY <1>2, <1>4, <2>1, <3>1, <4>1 DEF Found
    <3>2. CASE e # d
      <4>1. e \in Deps \ left[r] /\ report'[r][e] = report[r][e] BY <1>4, <1>5, <3>2
      <4>2. QED BY <1>1, <1>2, <1>4, <4>1 DEF Pings, Found
    <3>3. QED BY <3>1, <3>2
  <2>3. sent[r] = None /\ None \notin {200, 503}
    BY <1>1, <1>2, HttpApiAssumption DEF Recorder
  <2>4. QED BY <1>2, <2>1, <2>2, <2>3 DEF Pings
<1>12. QED BY <1>2, <1>7, <1>8, <1>9, <1>10, <1>11, RequestStep

\* Every dependency has been pinged: the answer follows from what was found.
LEMMA HealthAnswerStep == ASSUME IInv, NEW r \in Reqs, HealthAnswer(r) PROVE IInv'
<1> USE DEF HealthAnswer, WriteHeader, GoTo, Health, Auth, World
<1>1. TypeOK /\ Recorder(r) /\ Router(r) /\ Pings(r) BY Parts
<1>2. TypeOK'
  <2>1. sent' \in [Reqs -> Statuses \cup {None}] /\ recorded' \in [Reqs -> Statuses]
    BY <1>1 DEF TypeOK, Statuses
  <2>2. pc' \in [Reqs -> Labels] BY <1>1 DEF TypeOK, Labels
  <2>3. QED BY <1>1, <2>1, <2>2 DEF TypeOK
<1>3. \A q \in Reqs : q # r => Untouched(q) BY <1>1 DEF Untouched, TypeOK
<1>4. sent'[r] = (IF Healthy(r) THEN 200 ELSE 503) /\ recorded'[r] = sent'[r]
      /\ pc'[r] = "return" /\ logged'[r] = None
  BY <1>1 DEF Recorder, TypeOK
<1>5. Recorder(r)' BY <1>4, HttpApiAssumption DEF Recorder, Statuses
<1>6. Router(r)' BY <1>1, <1>4 DEF Router, Protected
<1>7. Pings(r)'
  <2>0. \A d \in Deps : Found(r, d) BY <1>1 DEF Pings
  <2>1. Healthy(r) => \A d \in Deps : d \in upOnce[r] BY <2>0 DEF Found, Healthy
  <2>2. Healthy(r) => upOnce[r] = Deps BY <1>1, <2>1 DEF TypeOK
  <2>3. ~Healthy(r) => upAlways[r] # Deps \/ ctx[r] # None BY <2>0 DEF Found, Healthy
  <2>4. QED BY <1>4, <2>0, <2>2, <2>3 DEF Pings, Found
<1>8. QED BY <1>2, <1>3, <1>5, <1>6, <1>7, RequestStep

\* A dependency fails or recovers under the pings of others.
LEMMA DepChangesStep == ASSUME IInv, DepChanges PROVE IInv'
<1> USE DEF DepChanges, Auth, Health
<1>1. TypeOK /\ \A r \in Reqs : Recorder(r) /\ Router(r) /\ Pings(r) BY Parts
<1>2. up' \subseteq Deps BY <1>1 DEF TypeOK
<1>3. \A r \in Reqs :
        IF pc[r] = "ping"
        THEN upAlways'[r] = upAlways[r] \cap up' /\ upOnce'[r] = upOnce[r] \cup up'
        ELSE upAlways'[r] = upAlways[r] /\ upOnce'[r] = upOnce[r]
  BY DEF Pinging
<1>4. TypeOK'
  <2>1. upAlways' \in [Reqs -> SUBSET Deps] /\ upOnce' \in [Reqs -> SUBSET Deps]
    BY <1>1, <1>2 DEF TypeOK
  <2>2. QED BY <1>1, <1>2, <2>1 DEF TypeOK
<1>5. RecorderAgrees' /\ LoggedAsSent' BY DEF IInv, RecorderAgrees, LoggedAsSent
<1>6. RoutesKept' /\ ActsForOwner' BY DEF IInv, RoutesKept, ActsForOwner
<1>7. PingsAreHonest' /\ HealthIsHonest'
  <2>1. ASSUME NEW r \in Reqs PROVE Pings(r)'
    <3>1. CASE pc[r] = "ping"
      <4>1. upAlways'[r] \subseteq up' /\ up' \subseteq upOnce'[r]
        <5>1. upAlways'[r] = upAlways[r] \cap up' /\ upOnce'[r] = upOnce[r] \cup up'
          BY <1>3, <3>1
        <5>2. QED BY <5>1
      <4>2. upOnce[r] \subseteq upOnce'[r] /\ upAlways'[r] \subseteq upAlways[r]
        <5>1. upAlways'[r] = upAlways[r] \cap up' /\ upOnce'[r] = upOnce[r] \cup up'
          BY <1>3, <3>1
        <5>2. QED BY <5>1
      <4>3. sent[r] = None /\ None \notin {200, 503}
        BY <1>1, <3>1, HttpApiAssumption DEF Recorder
      <4>4. Pings(r) /\ UNCHANGED <<pc, sent, route, left, report, ctx>> BY <1>1
      <4>5. \A d \in Deps \ left[r] : Found(r, d)'
        BY <3>1, <4>2, <4>4 DEF Pings, Found
      <4>6. QED BY <3>1, <4>1, <4>3, <4>4, <4>5 DEF Pings
    <3>2. CASE pc[r] # "ping"
      <4>1. upAlways'[r] = upAlways[r] /\ upOnce'[r] = upOnce[r] BY <1>3, <3>2
      <4>2. /\ pc'[r] = pc[r] /\ sent'[r] = sent[r] /\ route'[r] = route[r]
            /\ report'[r] = report[r] /\ ctx'[r] = ctx[r]
        OBVIOUS
      <4>3. \A d \in Deps : Found(r, d)' <=> Found(r, d) BY <4>1, <4>2 DEF Found
      <4>4. ASSUME route[r] = "healthz"
            PROVE  /\ sent[r] = 200 => upOnce[r] = Deps
                   /\ sent[r] = 503 => upAlways[r] # Deps \/ ctx[r] # None
                   /\ sent[r] \in {200, 503} => \A d \in Deps : Found(r, d)
        BY <1>1, <4>4 DEF Pings
      <4>5. ASSUME route'[r] = "healthz"
            PROVE  /\ sent'[r] = 200 => upOnce'[r] = Deps
                   /\ sent'[r] = 503 => upAlways'[r] # Deps \/ ctx'[r] # None
                   /\ sent'[r] \in {200, 503} => \A d \in Deps : Found(r, d)'
        BY <4>1, <4>2, <4>3, <4>4, <4>5
      <4>6. pc'[r] # "ping" BY <3>2, <4>2
      <4>7. QED BY <4>5, <4>6 DEF Pings
    <3>3. QED BY <3>1, <3>2
  <2>2. QED BY <2>1 DEF Pings, Found, PingsAreHonest, HealthIsHonest
<1>8. QED BY <1>4, <1>5, <1>6, <1>7 DEF IInv

-----------------------------------------------------------------------------
\* Every step keeps the invariant.
LEMMA NextInvariant == ASSUME IInv, [Next]_vars PROVE IInv'
<1>1. ASSUME NEW r \in Reqs, Arrive(r) \/ Judge(r) PROVE IInv'
  BY <1>1, ArriveStep, JudgeStep
<1>2. ASSUME NEW r \in Reqs, Authorize(r) PROVE IInv'
  BY <1>2, TurnedAwayStep, AdmitStep DEF Authorize, NoToken, Reject, AuthFails
<1>3. ASSUME NEW r \in Reqs, CheckHealth(r) PROVE IInv'
  BY <1>3, PingStep, HealthAnswerStep DEF CheckHealth
<1>4. ASSUME NEW r \in Reqs, Serve(r) PROVE IInv'
  BY <1>2, <1>3, <1>4, AnswerStep, LastSteps, PanicStep DEF Serve
<1>5. CASE DepChanges BY <1>5, DepChangesStep
<1>6. CASE UNCHANGED vars
  BY <1>6 DEF vars, IInv, TypeOK, RecorderAgrees, RoutesKept, PingsAreHonest,
              LoggedAsSent, ActsForOwner, HealthIsHonest
<1>7. QED BY <1>1, <1>4, <1>5, <1>6 DEF Next

LEMMA Inductive == Spec => []IInv
BY InitInvariant, NextInvariant, PTL DEF Spec

\* Every variable of a request keeps its type (middleware.go, handlers.go).
THEOREM TypeCorrect == Spec => []TypeOK
<1>1. IInv => TypeOK BY DEF IInv
<1>2. QED BY <1>1, Inductive, PTL

\* The request log never shows a status the client did not get (middleware.go:
\* statusRecorder, Recover).
THEOREM LogIsTrue == Spec => []LoggedAsSent
<1>1. IInv => LoggedAsSent BY DEF IInv
<1>2. QED BY <1>1, Inductive, PTL

\* A protected handler acts for the owner of an accepted token only
\* (middleware.go: BearerAuth).
THEOREM HandlersActForOwners == Spec => []ActsForOwner
<1>1. IInv => ActsForOwner BY DEF IInv
<1>2. QED BY <1>1, Inductive, PTL

\* 200 of /healthz is never wrong, and a dependency it blames was down, or the time
\* was over or the client gone (handlers.go: Healthz).
THEOREM HealthzIsHonest == Spec => []HealthIsHonest
<1>1. IInv => HealthIsHonest BY DEF IInv
<1>2. QED BY <1>1, Inductive, PTL

=============================================================================
