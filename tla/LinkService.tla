----------------------------- MODULE LinkService -----------------------------
(***************************************************************************)
(* internal/link, internal/repository, internal/cache and the two handlers *)
(* of internal/httpapi that use them: creating a link and following it,    *)
(* by concurrent requests in several processes that share one Postgres and *)
(* one Redis.                                                              *)
(*                                                                         *)
(* Links are never updated or deleted.  The cache holds (id, url) pairs    *)
(* with a TTL relative to the moment Redis executes the SET, computed from *)
(* the clock of the process that sent it.  A SET that its sender has given *)
(* up on may still be executed, and the client library retries, so it may  *)
(* be executed twice.  IDs come from internal/snowflake; they may repeat,  *)
(* as they do when two processes are given one WORKER_ID.                  *)
(***************************************************************************)
EXTENDS Integers, FiniteSets

CONSTANTS
  Reqs,         \* request slots; each serves one request after another
  Ids,
  Codes,
  Code,         \* shortcode.Encode
  RawUrls, Urls,
  Exps,         \* the values of expires_at in requests
  Normalize,    \* NormalizeAndValidateURL: a URL, or None for an error
  Never,        \* ExpiresAt = nil
  None,
  Garbage,      \* a cached value in an old format
  OldLinks,     \* the rows of links at the start, by code
  Skew,         \* Skew[r]: the clock of r's host minus true time
  Behind, Ahead,\* bounds on Skew
  CacheTTL,     \* main.cacheTTL
  MaxDelay,     \* longest time from computing a TTL to the execution of its SET
  MaxTime, MaxWire  \* bounds: the clock and the SETs on their way

Times == 0 .. MaxTime
Links == [id : Ids, url : Urls, exp : Exps]
Targets == [id : Ids, url : Urls]
Entries == [target : Targets \cup {Garbage}, until : Int]
Statuses == {201, 302, 400, 404, 410, 500}
Answers == [status : Statuses, target : Targets \cup {None}]

ASSUME LinkServiceAssumption ==
  /\ Code \in [Ids -> Codes]
  /\ Exps \subseteq Times \cup {Never}
  /\ Normalize \in [RawUrls -> Urls \cup {None}]
  /\ OldLinks \in [Codes -> Links \cup {None}]
  /\ \A c \in Codes : OldLinks[c] # None => Code[OldLinks[c].id] = c
  /\ Skew \in [Reqs -> Int]
  /\ Behind \in Nat /\ Ahead \in Nat
  /\ \A r \in Reqs : -Behind <= Skew[r] /\ Skew[r] <= Ahead
  /\ CacheTTL \in Nat \ {0}
  /\ MaxDelay \in Nat /\ MaxTime \in Nat /\ MaxWire \in Nat
  /\ Never \notin Int
  /\ None \notin Links \cup Targets \cup Codes \cup Urls
  /\ None \notin Entries /\ None \notin Answers
  /\ Garbage \notin Targets

VARIABLES
  now,      \* true time
  db,       \* db[c]: the row of table links with short_code c, or None
  cache,    \* cache[c]: the unexpired entry of key "link:c", or None
  wire,     \* SET commands sent and not executed for good
  pc,       \* pc[r]: where the handler of r is
  code,     \* code[r]: the code of the redirect r, None for a create
  link,     \* link[r]: the *Link in hand
  answer,   \* answer[r]: the response once it is decided, else None
  acked     \* history: codes whose 201 has been sent

vars == <<now, db, cache, wire, pc, code, link, answer, acked>>

Sets == [code : Codes, target : Targets, ttl : Nat \ {0}, sent : Times]
Labels == {"idle", "insert", "get", "select", "check", "warm", "set"}

TypeOK ==
  /\ now \in Times
  /\ db \in [Codes -> Links \cup {None}]
  /\ cache \in [Codes -> Entries \cup {None}]
  /\ wire \in SUBSET Sets
  /\ pc \in [Reqs -> Labels]
  /\ code \in [Reqs -> Codes \cup {None}]
  /\ link \in [Reqs -> Links \cup {None}]
  /\ answer \in [Reqs -> Answers \cup {None}]
  /\ acked \in SUBSET Codes

\* Keys of an older version may be left in Redis; they never match a Resolved.
OldEntry == [target |-> Garbage, until |-> MaxTime + 1]

Init ==
  /\ now = 0
  /\ db \in [Codes -> Links \cup {None}]
  /\ \A c \in Codes : db[c] \in {OldLinks[c], None}
  /\ cache \in [Codes -> {OldEntry, None}]
  /\ \A c \in Codes : db[c] = None => cache[c] = None
  /\ wire = {}
  /\ pc = [r \in Reqs |-> "idle"]
  /\ code = [r \in Reqs |-> None]
  /\ link = [r \in Reqs |-> None]
  /\ answer = [r \in Reqs |-> None]
  /\ acked = {}

-----------------------------------------------------------------------------
LocalNow(r) == now + Skew[r]

\* Resolved{LinkID, OriginalURL}
Target(l) == [id |-> l.id, url |-> l.url]

GoTo(r, label) == pc' = [pc EXCEPT ![r] = label]

Decide(r, status, target) ==
  answer' = [answer EXCEPT ![r] = [status |-> status, target |-> target]]

\* Send the decided response, and forget the request but for its answer.
Finish(r) ==
  /\ GoTo(r, "idle")
  /\ link' = [link EXCEPT ![r] = None]

\* Decide on an answer that needs no more work, and send it.
Reject(r, status) == Decide(r, status, None) /\ Finish(r)

(***************************************************************************)
(* Create: from the handler's checks to repo.Create nothing is shared but  *)
(* the generator, so that is one step.                                     *)
(***************************************************************************)
Acceptable(raw, exp, t) == (exp # Never => exp >= t) /\ Normalize[raw] # None

PostLink(r) == \E raw \in RawUrls, exp \in Exps :
  /\ pc[r] = "idle"
  /\ code' = [code EXCEPT ![r] = None]
  /\ \/ ~Acceptable(raw, exp, LocalNow(r)) /\ Reject(r, 400)
     \/ /\ Acceptable(raw, exp, LocalNow(r))
        /\ Reject(r, 500)                       \* the generator refused
     \/ /\ Acceptable(raw, exp, LocalNow(r))
        /\ \E id \in Ids :
             link' = [link EXCEPT ![r] = [id |-> id, url |-> Normalize[raw], exp |-> exp]]
        /\ answer' = [answer EXCEPT ![r] = None]
        /\ GoTo(r, "insert")
  /\ UNCHANGED <<now, db, cache, wire, acked>>

\* Mutant: the INSERT is an upsert.
Upserts(l) == TRUE

\* The row's primary key and unique short_code let it in.
CanInsert(l) == db[Code[l.id]] = None /\ \A c \in Codes : db[c] # None => db[c].id # l.id

\* Mutant: an INSERT whose reply is lost is sent again.
InsertLinkAgain(r) ==
  /\ pc[r] = "insert"
  /\ CanInsert(link[r])
  /\ db' = [db EXCEPT ![Code[link[r].id]] = link[r]]
  /\ \/ Decide(r, 201, Target(link[r])) /\ GoTo(r, "warm") /\ UNCHANGED link
     \/ UNCHANGED <<answer, pc, link>>
  /\ UNCHANGED <<now, cache, wire, code, acked>>

InsertLink(r) ==
  /\ pc[r] = "insert"
  /\ CanInsert(link[r])
  /\ db' = [db EXCEPT ![Code[link[r].id]] = link[r]]
  /\ \/ Decide(r, 201, Target(link[r])) /\ GoTo(r, "warm") /\ UNCHANGED link
     \/ Reject(r, 500)                          \* committed, the reply is lost
  /\ UNCHANGED <<now, cache, wire, code, acked>>

\* Mutant: ON CONFLICT DO NOTHING, and nobody looks at the count of rows.
IgnoresConflict(r) ==
  /\ pc[r] = "insert"
  /\ Decide(r, 201, Target(link[r]))
  /\ GoTo(r, "warm")
  /\ UNCHANGED <<now, db, cache, wire, code, link, acked>>

\* A unique violation, a lost connection, a cancelled request.
InsertFails(r) ==
  /\ pc[r] = "insert"
  /\ Reject(r, 500)
  /\ UNCHANGED <<now, db, cache, wire, code, acked>>

(***************************************************************************)
(* Redirect: the cache first, then the table.                              *)
(***************************************************************************)
GetCode(r) == \E c \in Codes :
  /\ pc[r] = "idle"
  /\ code' = [code EXCEPT ![r] = c]
  /\ answer' = [answer EXCEPT ![r] = None]
  /\ GoTo(r, "get")
  /\ UNCHANGED <<now, db, cache, wire, link, acked>>

\* Mutant: any value found counts as a hit.
IsPresent(entry) == entry # None

IsHit(entry) == entry # None /\ entry.target # Garbage

CacheHit(r) ==
  /\ pc[r] = "get"
  /\ IsHit(cache[code[r]])
  /\ Decide(r, 302, cache[code[r]].target)
  /\ Finish(r)
  /\ UNCHANGED <<now, db, cache, wire, code, acked>>

\* A miss, an unreadable value, or Redis does not answer, whatever it holds.
CacheMiss(r) ==
  /\ pc[r] = "get"
  /\ GoTo(r, "select")
  /\ UNCHANGED <<now, db, cache, wire, code, link, answer, acked>>

\* Mutant: every error of the query is taken for ErrNoRows.
SelectLinkOr404(r) ==
  /\ pc[r] = "select"
  /\ \/ /\ db[code[r]] # None
        /\ link' = [link EXCEPT ![r] = db[code[r]]]
        /\ GoTo(r, "check")
        /\ UNCHANGED answer
     \/ Reject(r, 404)
  /\ UNCHANGED <<now, db, cache, wire, code, acked>>

SelectLink(r) ==
  /\ pc[r] = "select"
  /\ \/ /\ db[code[r]] # None
        /\ link' = [link EXCEPT ![r] = db[code[r]]]
        /\ GoTo(r, "check")
        /\ UNCHANGED answer
     \/ db[code[r]] = None /\ Reject(r, 404)
     \/ Reject(r, 500)                          \* the query failed
  /\ UNCHANGED <<now, db, cache, wire, code, acked>>

\* Mutant: expires_at is not looked at.
NeverExpires(l, t) == FALSE

Expired(l, t) == l.exp # Never /\ t > l.exp

CheckExpired(r) ==
  /\ pc[r] = "check"
  /\ \/ Expired(link[r], LocalNow(r)) /\ Reject(r, 410)
     \/ /\ ~Expired(link[r], LocalNow(r))
        /\ Decide(r, 302, Target(link[r]))
        /\ GoTo(r, "warm")
        /\ UNCHANGED link
  /\ UNCHANGED <<now, db, cache, wire, code, acked>>

(***************************************************************************)
(* Both paths end by warming the cache; its failure does not matter.       *)
(***************************************************************************)
\* Mutant: every entry gets the full TTL.
FullTTL(l, t) == CacheTTL

CacheTTLFor(l, t) ==
  IF l.exp # Never /\ l.exp - t < CacheTTL THEN l.exp - t ELSE CacheTTL

\* The answer leaves: a 201 makes its code known to a client.
Respond(r) ==
  /\ Finish(r)
  /\ acked' = IF answer[r].status = 201 THEN acked \cup {Code[link[r].id]} ELSE acked

WarmCache(r) ==
  LET ttl == CacheTTLFor(link[r], LocalNow(r))
      set == [code |-> Code[link[r].id], target |-> Target(link[r]), ttl |-> ttl, sent |-> now]
  IN  /\ pc[r] = "warm"
      /\ \/ ttl <= 0 /\ Respond(r) /\ UNCHANGED wire
         \/ /\ ttl > 0
            /\ Cardinality(wire) < MaxWire
            /\ wire' = wire \cup {set}
            /\ GoTo(r, "set")
            /\ UNCHANGED <<link, acked>>
      /\ UNCHANGED <<now, db, cache, code, answer>>

\* Redis confirms the SET, or the client gives up on it.
SetReturns(r) ==
  /\ pc[r] = "set"
  /\ Respond(r)
  /\ UNCHANGED <<now, db, cache, wire, code, answer>>

-----------------------------------------------------------------------------
(***************************************************************************)
(* Redis, the network, crashes and time.                                   *)
(***************************************************************************)
\* A SET is executed; it stays on its way if the client has sent it again.
RedisSet == \E m \in wire :
  /\ cache' = [cache EXCEPT ![m.code] = [target |-> m.target, until |-> now + m.ttl]]
  /\ wire' = wire \/ wire' = wire \ {m}
  /\ UNCHANGED <<now, db, pc, code, link, answer, acked>>

RedisLoses == \E m \in wire :
  /\ wire' = wire \ {m}
  /\ UNCHANGED <<now, db, cache, pc, code, link, answer, acked>>

RedisEvicts == \E c \in Codes :
  /\ cache[c] # None
  /\ cache' = [cache EXCEPT ![c] = None]
  /\ UNCHANGED <<now, db, wire, pc, code, link, answer, acked>>

\* The process dies, or the handler panics: what it had in hand is gone.
Abort(r) ==
  /\ pc[r] # "idle"
  /\ answer' = [answer EXCEPT ![r] = None]
  /\ Finish(r)
  /\ UNCHANGED <<now, db, cache, wire, code, acked>>

\* Time passes; Redis drops what has expired, and no SET is later than MaxDelay.
Tick ==
  /\ now < MaxTime
  /\ now' = now + 1
  /\ cache' = [c \in Codes |-> IF cache[c] # None /\ cache[c].until <= now' THEN None ELSE cache[c]]
  /\ wire' = {m \in wire : now' - m.sent <= MaxDelay}
  /\ UNCHANGED <<db, pc, code, link, answer, acked>>

Create(r) == PostLink(r) \/ InsertLink(r) \/ InsertFails(r)
Resolve(r) == GetCode(r) \/ CacheHit(r) \/ CacheMiss(r) \/ SelectLink(r) \/ CheckExpired(r)
Warm(r) == WarmCache(r) \/ SetReturns(r)

Next ==
  \/ \E r \in Reqs : Create(r) \/ Resolve(r) \/ Warm(r) \/ Abort(r)
  \/ RedisSet \/ RedisLoses \/ RedisEvicts \/ Tick

Spec == Init /\ [][Next]_vars

-----------------------------------------------------------------------------
(***************************************************************************)
(* Properties.                                                             *)
(***************************************************************************)
\* How late a link may still be served: the SET is late, or a clock behind.
Late == MaxDelay + Behind

\* What Redis holds, or will hold once a SET on its way is executed, is the
\* row of its code, whatever other request drew the same ID meanwhile
\* (service.go: Create, Resolve).
CacheAgreesWithDB ==
  /\ \A c \in Codes : IsHit(cache[c]) => db[c] # None /\ cache[c].target = Target(db[c])
  /\ \A m \in wire : db[m.code] # None /\ m.target = Target(db[m.code])

\* A cache entry does not outlive its link by more than the delay of its SET
\* and the lag of the clock its TTL was computed with (service.go: cacheTTLFor).
CacheExpiresInTime == \A c \in Codes :
  IsHit(cache[c]) /\ db[c].exp # Never => cache[c].until <= db[c].exp + Late

\* What the comment on cacheTTLFor promises: no cache entry outlives its link.
CacheNeverOutlivesLink == \A c \in Codes :
  IsHit(cache[c]) /\ db[c].exp # Never => cache[c].until <= db[c].exp

\* A client that was told 201 got the link the table holds under that code,
\* although another request may have drawn the same ID (service.go: Create).
CreatedIsStored == \A r \in Reqs :
  answer[r] # None /\ answer[r].status = 201 =>
    LET row == db[Code[answer[r].target.id]]
    IN  answer[r].target # None /\ row # None /\ answer[r].target = Target(row)

\* No redirect is answered 404 once the 201 of its code has been sent, by
\* whichever process and with whatever state of the cache (service.go: Resolve).
AckedLinksAreFound == [][\A r \in Reqs :
  answer'[r] # answer[r] /\ answer'[r] # None /\ answer'[r].status = 404 =>
    code[r] \notin acked]_vars

Store == INSTANCE LinkStore WITH links <- db, time <- now, asked <- code, Early <- Ahead

\* Requests served with a cache, by several processes, at once, are answered
\* as LinkStore promises (service.go, handlers.go: CreateLink, Redirect).
ImplementsLinkStore == Store!Spec
-----------------------------------------------------------------------------
(***************************************************************************)
(* Why they hold: the inductive invariant.                                 *)
(***************************************************************************)
\* A row is found under the code of its own ID (service.go: Create).
RowsKeyed == \A c \in Codes : db[c] # None => Code[db[c].id] = c

\* A link in hand after the INSERT or the SELECT is the row of the table, and
\* the answer to be sent is decided before the cache is warmed.
HandsHoldRows == \A r \in Reqs :
  /\ pc[r] = "insert" => link[r] # None
  /\ pc[r] \in {"get", "select", "check"} => code[r] # None
  /\ pc[r] \in {"check", "warm", "set"} => link[r] # None /\ db[Code[link[r].id]] = link[r]
  /\ pc[r] = "check" => db[code[r]] = link[r]
  /\ pc[r] \in {"warm", "set"} => answer[r] # None

\* A SET on its way is young, and its TTL was cut at its link's expiry.
WireInTime == \A m \in wire :
  /\ m.sent <= now /\ now <= m.sent + MaxDelay
  /\ db[m.code].exp # Never => m.sent + m.ttl <= db[m.code].exp + Behind

CacheUnexpired == \A c \in Codes : cache[c] # None => cache[c].until > now

AckedStored == \A c \in acked : db[c] # None

IInv ==
  /\ TypeOK /\ RowsKeyed /\ HandsHoldRows
  /\ CacheAgreesWithDB /\ WireInTime /\ CacheExpiresInTime /\ CacheUnexpired
  /\ CreatedIsStored /\ AckedStored

=============================================================================
