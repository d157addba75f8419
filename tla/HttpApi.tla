------------------------------- MODULE HttpApi -------------------------------
(***************************************************************************)
(* internal/httpapi around the handlers, and internal/authclient: a request*)
(* passes Recover, RequestID and Logging, the router sends it to a handler,*)
(* the protected ones behind BearerAuth, which asks the Auth service; a    *)
(* panic unwinds to Recover.  What the handlers of links do is modelled in *)
(* LinkService and ClickDelivery; here they write a status, may go on (the *)
(* redirect builds and publishes a click) and may panic.  Healthz is whole.*)
(*                                                                         *)
(* net/http sends the first status a handler writes; the recorder of       *)
(* Logging keeps the last.                                                 *)
(***************************************************************************)
EXTENDS Integers, FiniteSets

CONSTANTS
  Reqs,
  Tokens, Users,
  OwnerOf,   \* the user the Auth service issued a token to
  Deps,      \* what Healthz pings
  PanicLine, \* what Recover logs, a line without a status
  None

Protected == {"create", "list"}
Routes == Protected \cup {"redirect", "healthz", "unknown"}

ASSUME HttpApiAssumption ==
  /\ OwnerOf \in [Tokens -> Users]
  /\ None \notin Tokens \cup Users /\ "invalid" \notin Users
  /\ PanicLine # None /\ {PanicLine, None} \cap Nat = {}

VARIABLES
  pc,        \* pc[r]: where the request is
  route,     \* route[r]: the route it matches
  token,     \* token[r]: its Bearer token, or None
  verdict,   \* verdict[r]: what the Auth service has answered r: a user, "invalid", or None
  user,      \* user[r]: the user in the context of r
  sent,      \* sent[r]: the status the client gets
  recorded,  \* recorded[r]: statusRecorder.status
  logged,    \* logged[r]: the status in the log line of r, or PanicLine
  left,      \* left[r]: dependencies Healthz has not pinged yet
  report,    \* report[r]: what its pings have found
  ctx,       \* ctx[r]: why the context of Healthz is done, or None
  up,        \* dependencies that answer
  upAlways,  \* history: upAlways[r], dependencies up during all of Healthz
  upOnce     \* history: upOnce[r], dependencies up at some time in it

vars ==
  <<pc, route, token, verdict, user, sent, recorded, logged, left, report, ctx,
    up, upAlways, upOnce>>

Statuses == {200, 201, 301, 302, 400, 401, 404, 405, 410, 500, 503}
Labels == {"none", "auth", "handle", "tail", "ping", "return", "done"}
\* What a ping may find, "late" if the context was done before it began.
Findings == {"ok", "error", "late"}
Reported == UNION {[asked -> Findings] : asked \in SUBSET Deps}
\* The 2 seconds for all pings are over, or the client is gone.
Ends == {"deadline", "cancelled"}

TypeOK ==
  /\ pc \in [Reqs -> Labels]
  /\ route \in [Reqs -> Routes]
  /\ token \in [Reqs -> Tokens \cup {None}]
  /\ verdict \in [Reqs -> Users \cup {"invalid", None}]
  /\ user \in [Reqs -> Users \cup {None}]
  /\ sent \in [Reqs -> Statuses \cup {None}]
  /\ recorded \in [Reqs -> Statuses]
  /\ logged \in [Reqs -> Statuses \cup {PanicLine, None}]
  /\ left \in [Reqs -> SUBSET Deps]
  /\ report \in [Reqs -> Reported]
  /\ \A r \in Reqs : DOMAIN report[r] = Deps \ left[r]
  /\ ctx \in [Reqs -> Ends \cup {None}]
  /\ up \subseteq Deps
  /\ upAlways \in [Reqs -> SUBSET Deps]
  /\ upOnce \in [Reqs -> SUBSET Deps]

Init ==
  /\ pc = [r \in Reqs |-> "none"]
  /\ route = [r \in Reqs |-> "unknown"]
  /\ token = [r \in Reqs |-> None]
  /\ verdict = [r \in Reqs |-> None]
  /\ user = [r \in Reqs |-> None]
  /\ sent = [r \in Reqs |-> None]
  /\ recorded = [r \in Reqs |-> 200]
  /\ logged = [r \in Reqs |-> None]
  /\ left = [r \in Reqs |-> Deps]
  /\ report = [r \in Reqs |-> <<>>]
  /\ ctx = [r \in Reqs |-> None]
  /\ up \in SUBSET Deps
  /\ upAlways = [r \in Reqs |-> {}]
  /\ upOnce = [r \in Reqs |-> {}]

Auth == <<route, token, verdict, user>>
Health == <<left, report, ctx>>
World == <<up, upAlways, upOnce>>

GoTo(r, label) == pc' = [pc EXCEPT ![r] = label]

WriteHeader(r, status) ==
  /\ sent' = [sent EXCEPT ![r] = IF @ = None THEN status ELSE @]
  /\ recorded' = [recorded EXCEPT ![r] = status]

-----------------------------------------------------------------------------
(***************************************************************************)
(* The middleware and the router.                                          *)
(***************************************************************************)
Arrive(r) == \E kind \in Routes, tok \in Tokens \cup {None} :
  /\ pc[r] = "none"
  /\ route' = [route EXCEPT ![r] = kind]
  /\ token' = [token EXCEPT ![r] = IF kind \in Protected THEN tok ELSE None]
  /\ GoTo(r, CASE kind \in Protected -> "auth" [] kind = "healthz" -> "ping" [] OTHER -> "handle")
  /\ upAlways' = [upAlways EXCEPT ![r] = IF kind = "healthz" THEN up ELSE {}]
  /\ upOnce' = [upOnce EXCEPT ![r] = IF kind = "healthz" THEN up ELSE {}]
  /\ UNCHANGED <<verdict, user, sent, recorded, logged, Health, up>>

\* Mutant: no return after the 401.
NoTokenGoesOn(r) ==
  /\ pc[r] = "auth" /\ token[r] = None
  /\ WriteHeader(r, 401)
  /\ GoTo(r, "handle")
  /\ UNCHANGED <<Auth, logged, Health, World>>

NoToken(r) ==
  /\ pc[r] = "auth" /\ token[r] = None
  /\ WriteHeader(r, 401)
  /\ GoTo(r, "return")
  /\ UNCHANGED <<Auth, logged, Health, World>>

\* The Auth service judges the token.  What it accepts is its own affair, and may
\* be revoked before the answer is read.
Judge(r) ==
  /\ pc[r] = "auth" /\ token[r] # None /\ verdict[r] = None
  /\ \E v \in {OwnerOf[token[r]], "invalid"} : verdict' = [verdict EXCEPT ![r] = v]
  /\ UNCHANGED <<pc, route, token, user, sent, recorded, logged, Health, World>>

\* Its reply arrives.
Admit(r) ==
  /\ pc[r] = "auth" /\ verdict[r] \in Users
  /\ user' = [user EXCEPT ![r] = verdict[r]]
  /\ GoTo(r, "handle")
  /\ UNCHANGED <<route, token, verdict, sent, recorded, logged, Health, World>>

Reject(r) ==
  /\ pc[r] = "auth" /\ verdict[r] = "invalid"
  /\ WriteHeader(r, 401)
  /\ GoTo(r, "return")
  /\ UNCHANGED <<Auth, logged, Health, World>>

\* Mutant: only a verdict counts, and there is none.
AuthFailsOpen(r) ==
  /\ pc[r] = "auth" /\ token[r] # None
  /\ verdict[r] # "invalid"
  /\ GoTo(r, "handle")
  /\ UNCHANGED <<Auth, sent, recorded, logged, Health, World>>

\* The call fails or takes longer than callTimeout, judged or not.
AuthFails(r) ==
  /\ pc[r] = "auth" /\ token[r] # None
  /\ WriteHeader(r, 503)
  /\ GoTo(r, "return")
  /\ UNCHANGED <<Auth, logged, Health, World>>

Answers(kind) ==
  CASE kind = "create"   -> {201, 400, 500}
    [] kind = "list"     -> {200, 500}
    [] kind = "redirect" -> {302, 404, 410, 500}
    [] kind = "healthz"  -> {200, 503}
    [] kind = "unknown"  -> {301, 404, 405}   \* ServeMux

\* The handler answers; a redirect has more to do then.
Answer(r) == \E status \in Answers(route[r]) :
  /\ pc[r] = "handle"
  /\ WriteHeader(r, status)
  /\ GoTo(r, IF status = 302 THEN "tail" ELSE "return")
  /\ UNCHANGED <<Auth, logged, Health, World>>

PublishClick(r) ==
  /\ pc[r] = "tail"
  /\ GoTo(r, "return")
  /\ UNCHANGED <<Auth, sent, recorded, logged, Health, World>>

\* Logging, on the way out.
Log(r) ==
  /\ pc[r] = "return"
  /\ logged' = [logged EXCEPT ![r] = recorded[r]]
  /\ GoTo(r, "done")
  /\ UNCHANGED <<Auth, sent, recorded, Health, World>>

\* Mutant: the panic is logged and nothing is written.
PanicWithoutAnswer(r) ==
  /\ pc[r] \in {"auth", "handle", "tail", "ping"}
  /\ logged' = [logged EXCEPT ![r] = PanicLine]
  /\ GoTo(r, "done")
  /\ UNCHANGED <<Auth, sent, recorded, Health, World>>

\* A panic unwinds past Logging, which writes nothing; Recover writes its own line,
\* and to the writer below the recorder.
Panic(r) ==
  /\ pc[r] \in {"auth", "handle", "tail", "ping"}
  /\ logged' = [logged EXCEPT ![r] = PanicLine]
  /\ sent' = [sent EXCEPT ![r] = IF @ = None THEN 500 ELSE @]
  /\ GoTo(r, "done")
  /\ left' = [left EXCEPT ![r] = Deps]        \* the map of Healthz is lost
  /\ report' = [report EXCEPT ![r] = <<>>]
  /\ ctx' = [ctx EXCEPT ![r] = None]
  /\ UNCHANGED <<Auth, recorded, World>>

-----------------------------------------------------------------------------
(***************************************************************************)
(* Healthz: the dependencies are pinged one after another, in the order of *)
(* a map, under one context.                                               *)
(***************************************************************************)
\* Mutant: a pinged dependency is pinged again.
ReportsAgain(r, d, finding) ==
  /\ UNCHANGED left
  /\ report' = [report EXCEPT ![r] = [e \in (Deps \ left[r]) \cup {d} |->
                                        IF e = d THEN finding ELSE report[r][e]]]

Reports(r, d, finding) ==
  /\ left' = [left EXCEPT ![r] = @ \ {d}]
  /\ report' = [report EXCEPT ![r] = [e \in (Deps \ left[r]) \cup {d} |->
                                        IF e = d THEN finding ELSE report[r][e]]]

\* A ping takes time, whether or not it succeeds: its context may be done after it.
TimePasses(r) == \E end \in Ends \cup {None} : ctx' = [ctx EXCEPT ![r] = end]

PingOk(r) == \E d \in left[r] :
  /\ pc[r] = "ping" /\ ctx[r] = None
  /\ d \in up
  /\ Reports(r, d, "ok") /\ TimePasses(r)
  /\ UNCHANGED <<pc, Auth, sent, recorded, logged, World>>

\* A dependency that is down refuses; one that hangs, or is slow, does not answer
\* before the context is done.
PingFails(r) == \E d \in left[r] :
  /\ pc[r] = "ping" /\ ctx[r] = None
  /\ Reports(r, d, "error") /\ TimePasses(r)
  /\ d \notin up \/ ctx'[r] # None
  /\ UNCHANGED <<pc, Auth, sent, recorded, logged, World>>

\* Once the context is done every ping fails at once.
PingTooLate(r) == \E d \in left[r] :
  /\ pc[r] = "ping" /\ ctx[r] # None
  /\ Reports(r, d, "late")
  /\ UNCHANGED <<pc, Auth, sent, recorded, logged, ctx, World>>

\* Mutant: one dependency that answers is enough.
SomeHealthy(r) == \E d \in Deps : report[r][d] = "ok"

Healthy(r) == \A d \in Deps : report[r][d] = "ok"

HealthAnswer(r) ==
  /\ pc[r] = "ping" /\ left[r] = {}
  /\ WriteHeader(r, IF Healthy(r) THEN 200 ELSE 503)
  /\ GoTo(r, "return")
  /\ UNCHANGED <<Auth, logged, Health, World>>

-----------------------------------------------------------------------------
(***************************************************************************)
(* The world outside.                                                      *)
(***************************************************************************)
Pinging == {r \in Reqs : pc[r] = "ping"}

\* A dependency fails or recovers; nobody looks but Healthz.
DepChanges == \E d \in Deps :
  /\ Pinging # {}
  /\ up' = IF d \in up THEN up \ {d} ELSE up \cup {d}
  /\ upAlways' = [r \in Reqs |-> IF r \in Pinging THEN upAlways[r] \cap up' ELSE upAlways[r]]
  /\ upOnce' = [r \in Reqs |-> IF r \in Pinging THEN upOnce[r] \cup up' ELSE upOnce[r]]
  /\ UNCHANGED <<pc, Auth, sent, recorded, logged, Health>>

Authorize(r) == NoToken(r) \/ Admit(r) \/ Reject(r) \/ AuthFails(r)
CheckHealth(r) == PingOk(r) \/ PingFails(r) \/ PingTooLate(r) \/ HealthAnswer(r)
Serve(r) == Authorize(r) \/ CheckHealth(r) \/ Answer(r) \/ PublishClick(r) \/ Log(r) \/ Panic(r)

Next ==
  \/ \E r \in Reqs : Arrive(r) \/ Judge(r) \/ Serve(r)
  \/ DepChanges

Spec == Init /\ [][Next]_vars

\* Waiting for the Auth service and for the pings has a timeout; the handlers of
\* links wait for Postgres and for the producer without one, and nothing says
\* that they return.
FairSpec == Spec /\ \A r \in Reqs : WF_vars(Authorize(r) \/ CheckHealth(r) \/ Log(r))

-----------------------------------------------------------------------------
(***************************************************************************)
(* Properties.                                                             *)
(***************************************************************************)
\* A line of the request log shows the status the client got (middleware.go:
\* statusRecorder).
LoggedAsSent == \A r \in Reqs : logged[r] \in Statuses => logged[r] = sent[r]

\* A protected handler acts only on a request whose token the Auth service has
\* accepted while the request was under way, and in the name of the token's
\* owner, although tokens are revoked and calls fail (middleware.go: BearerAuth).
ActsForOwner == \A r \in Reqs :
  route[r] \in Protected /\ (pc[r] = "handle" \/ sent[r] \in Answers(route[r]) \ {500}) =>
    /\ token[r] # None
    /\ verdict[r] = OwnerOf[token[r]] /\ user[r] = verdict[r]

\* 200 of /healthz means every dependency was up at some time during the request.
\* 503 alone means less: that one was not up all the time, or that their answers
\* together took longer than the 2 seconds, or that the client has gone.  Its body
\* tells which: without one of the two no dependency is blamed that was up all the
\* time, whatever happened to the others (handlers.go: Healthz).
HealthIsHonest == \A r \in Reqs : route[r] = "healthz" =>
  /\ sent[r] = 200 => upOnce[r] = Deps
  /\ sent[r] = 503 => upAlways[r] # Deps \/ ctx[r] # None
  /\ sent[r] \in {200, 503} => \A d \in Deps :
       IF report[r][d] = "ok" THEN d \in upOnce[r] ELSE d \notin upAlways[r] \/ ctx[r] # None

\* What the comment on Healthz says, each ping has its own timeout: as long as the
\* client waits, no dependency that has been up all the time fails because the time
\* was over before its ping began.
EachPingHasItsTimeout == \A r \in Reqs : \A d \in Deps \ left[r] :
  report[r][d] = "late" /\ ctx[r] = "deadline" => d \notin upAlways[r]

\* A request whose handler returns gets an answer and leaves a line in the log,
\* whatever panics and whether or not the Auth service replies (middleware.go:
\* Recover, BearerAuth; client.go: Validate).
EveryRequestAnswered == \A r \in Reqs :
  []<>(pc[r] \notin {"handle", "tail"}) =>
    ((pc[r] # "none") ~> (pc[r] = "done" /\ sent[r] # None /\ logged[r] # None))

-----------------------------------------------------------------------------
(***************************************************************************)
(* Why the invariants hold: the inductive invariant.                       *)
(***************************************************************************)
\* The recorder agrees with the client until Recover goes behind its back, and
\* nothing is logged before the end.
RecorderAgrees == \A r \in Reqs :
  /\ pc[r] \in {"none", "auth", "handle", "ping"} => sent[r] = None
  /\ pc[r] \in {"tail", "return"} => sent[r] = recorded[r]
  /\ pc[r] # "done" => logged[r] = None

\* Each label belongs to its routes, and a verdict to the token it is about.
RoutesKept == \A r \in Reqs :
  /\ pc[r] = "none" => verdict[r] = None /\ left[r] = Deps /\ ctx[r] = None
  /\ route[r] = "healthz" => pc[r] \in {"ping", "return", "done"}
  /\ route[r] \in Protected => pc[r] \in {"auth", "handle", "return", "done"}
  /\ pc[r] = "auth" => route[r] \in Protected
  /\ verdict[r] # None => token[r] # None /\ verdict[r] \in {OwnerOf[token[r]], "invalid"}

\* What the pings have found was so, and one that failed had a cause.
PingsAreHonest == \A r \in Reqs : pc[r] = "ping" =>
  /\ upAlways[r] \subseteq up /\ up \subseteq upOnce[r]
  /\ \A d \in Deps \ left[r] :
       IF report[r][d] = "ok" THEN d \in upOnce[r] ELSE d \notin upAlways[r] \/ ctx[r] # None

IInv ==
  /\ TypeOK /\ RecorderAgrees /\ RoutesKept /\ PingsAreHonest
  /\ LoggedAsSent /\ ActsForOwner /\ HealthIsHonest

=============================================================================
