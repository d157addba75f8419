------------------------- MODULE LinkService_proofs -------------------------
(***************************************************************************)
(* Proofs about LinkService: type correctness, agreement of the cache with *)
(* the table, bounded staleness, and the refinement of LinkStore, for every*)
(* number of requests, codes and IDs, every skew and every delay.          *)
(***************************************************************************)
EXTENDS LinkService, TLAPS

\* What is cached of a link is its ID and its URL.
LEMMA TargetType == ASSUME NEW l \in Links PROVE Target(l) \in Targets
  BY DEF Target, Links, Targets

\* The record of a decided answer.
LEMMA AnswerType ==
  ASSUME NEW status \in Statuses, NEW target \in Targets \cup {None}
  PROVE  [status |-> status, target |-> target] \in Answers
  BY DEF Answers

\* The code of a link is a code.
LEMMA CodeType == ASSUME NEW l \in Links PROVE l.id \in Ids /\ Code[l.id] \in Codes
  BY LinkServiceAssumption DEF Links

\* A clock shows an integer.
LEMMA LocalNowType ==
  ASSUME TypeOK, NEW r \in Reqs
  PROVE  LocalNow(r) \in Int /\ LocalNow(r) >= now - Behind /\ LocalNow(r) <= now + Ahead
<1>1. Skew[r] \in Int /\ -Behind <= Skew[r] /\ Skew[r] <= Ahead
  BY LinkServiceAssumption
<1>2. now \in Int /\ Behind \in Int /\ Ahead \in Int
  BY LinkServiceAssumption DEF TypeOK, Times
<1>3. QED BY <1>1, <1>2 DEF LocalNow

\* A TTL is an integer, and ends with the link as its clock sees it.
LEMMA TTLType ==
  ASSUME NEW l \in Links, NEW t \in Int
  PROVE  /\ CacheTTLFor(l, t) \in Int
         /\ l.exp # Never => l.exp \in Int /\ t + CacheTTLFor(l, t) <= l.exp
<1>1. CASE l.exp = Never
  BY <1>1, LinkServiceAssumption DEF CacheTTLFor
<1>2. CASE l.exp # Never
  <2>1. l.exp \in Int BY <1>2, LinkServiceAssumption DEF Links, Times
  <2>2. CacheTTL \in Int BY LinkServiceAssumption
  <2>3. QED BY <1>2, <2>1, <2>2 DEF CacheTTLFor
<1>3. QED BY <1>1, <1>2

-----------------------------------------------------------------------------
(***************************************************************************)
(* The invariant holds at the start and is kept by each kind of step.      *)
(***************************************************************************)
\* The table holds old rows only, and Redis at most values of an old format.
LEMMA InitInvariant == ASSUME Init PROVE IInv
<1> USE DEF Init
<1>1. TypeOK
  <2>1. 0 \in Times /\ OldEntry \in Entries
    BY LinkServiceAssumption DEF Times, OldEntry, Entries
  <2>2. QED BY <2>1 DEF TypeOK, Labels
<1>2. RowsKeyed BY LinkServiceAssumption DEF RowsKeyed
<1>3. HandsHoldRows BY DEF HandsHoldRows
<1>4. ASSUME NEW c \in Codes PROVE ~IsHit(cache[c]) /\ (cache[c] # None => cache[c].until > now)
  BY LinkServiceAssumption DEF IsHit, OldEntry
<1>5. CacheAgreesWithDB /\ CacheExpiresInTime /\ CacheUnexpired /\ WireInTime
  BY <1>4 DEF CacheAgreesWithDB, CacheExpiresInTime, CacheUnexpired, WireInTime
<1>6. CreatedIsStored /\ AckedStored BY DEF CreatedIsStored, AckedStored
<1>7. QED BY <1>1, <1>2, <1>3, <1>5, <1>6 DEF IInv

\* What holds of a SET on its way.
SetOK(m) ==
  /\ db[m.code] # None /\ m.target = Target(db[m.code])
  /\ m.sent <= now /\ now <= m.sent + MaxDelay
  /\ db[m.code].exp # Never => m.sent + m.ttl <= db[m.code].exp + Behind

\* A 201 names a stored link.
Truthful(ans) == ans # None /\ ans.status = 201 =>
  LET row == db[Code[ans.target.id]]
  IN  ans.target # None /\ row # None /\ ans.target = Target(row)

\* The SETs on their way are as they should be.
LEMMA WireOK == ASSUME IInv, NEW m \in wire PROVE SetOK(m)
  BY DEF IInv, CacheAgreesWithDB, WireInTime, SetOK

\* A handler's step that leaves the table and Redis alone.
LEMMA HandlerStep ==
  ASSUME IInv, NEW r \in Reqs,
         NEW label \in Labels, NEW c \in Codes \cup {None},
         NEW l \in Links \cup {None}, NEW ans \in Answers \cup {None},
         pc' = [pc EXCEPT ![r] = label], code' = [code EXCEPT ![r] = c],
         link' = [link EXCEPT ![r] = l], answer' = [answer EXCEPT ![r] = ans],
         UNCHANGED <<now, db, cache>>,
         wire' \in SUBSET Sets, \A m \in wire' : SetOK(m),
         acked' \in SUBSET Codes, \A k \in acked' : db[k] # None,
         label = "insert" => l # None,
         label \in {"get", "select", "check"} => c # None,
         label \in {"check", "warm", "set"} => l # None /\ db[Code[l.id]] = l,
         label = "check" => db[c] = l,
         label \in {"warm", "set"} => ans # None,
         Truthful(ans)
  PROVE  IInv'
<1> USE DEF IInv
<1>1. TypeOK' BY DEF TypeOK
<1>2. RowsKeyed' BY DEF RowsKeyed
<1>3. \A q \in Reqs :
        /\ q = r => pc'[q] = label /\ code'[q] = c /\ link'[q] = l /\ answer'[q] = ans
        /\ q # r => /\ pc'[q] = pc[q] /\ code'[q] = code[q]
                    /\ link'[q] = link[q] /\ answer'[q] = answer[q]
  BY DEF TypeOK
<1>4. HandsHoldRows'
  <2> SUFFICES ASSUME NEW q \in Reqs
               PROVE  /\ pc'[q] = "insert" => link'[q] # None
                      /\ pc'[q] \in {"get", "select", "check"} => code'[q] # None
                      /\ pc'[q] \in {"check", "warm", "set"} =>
                           link'[q] # None /\ db[Code[link'[q].id]] = link'[q]
                      /\ pc'[q] = "check" => db[code'[q]] = link'[q]
                      /\ pc'[q] \in {"warm", "set"} => answer'[q] # None
    BY DEF HandsHoldRows
  <2>1. CASE q = r BY <1>3, <2>1
  <2>2. CASE q # r BY <1>3, <2>2 DEF HandsHoldRows
  <2>3. QED BY <2>1, <2>2
<1>5. CacheAgreesWithDB' BY DEF CacheAgreesWithDB, SetOK
<1>6. WireInTime' BY DEF WireInTime, SetOK
<1>7. CacheExpiresInTime' /\ CacheUnexpired'
  BY DEF CacheExpiresInTime, CacheUnexpired
<1>8. CreatedIsStored'
  <2> SUFFICES ASSUME NEW q \in Reqs PROVE Truthful(answer'[q])
    BY DEF CreatedIsStored, Truthful
  <2>1. CASE q = r BY <1>3, <2>1
  <2>2. CASE q # r BY <1>3, <2>2 DEF CreatedIsStored, Truthful
  <2>3. QED BY <2>1, <2>2
<1>9. AckedStored' BY DEF AckedStored
<1>10. QED BY <1>1, <1>2, <1>4, <1>5, <1>6, <1>7, <1>8, <1>9

\* Answering without more work.
LEMMA RejectStep ==
  ASSUME IInv, NEW r \in Reqs, NEW status \in Statuses \ {201}, NEW c \in Codes \cup {None},
         Reject(r, status), code' = [code EXCEPT ![r] = c],
         UNCHANGED <<now, db, cache, wire, acked>>
  PROVE  IInv'
<1> DEFINE ans == [status |-> status, target |-> None]
<1>1. ans \in Answers BY AnswerType
<1>2. Truthful(ans) BY DEF Truthful
<1>3. /\ pc' = [pc EXCEPT ![r] = "idle"] /\ link' = [link EXCEPT ![r] = None]
      /\ answer' = [answer EXCEPT ![r] = ans]
  BY DEF Reject, Decide, Finish, GoTo
<1>4. /\ wire' \in SUBSET Sets /\ \A m \in wire' : SetOK(m)
      /\ acked' \in SUBSET Codes /\ \A k \in acked' : db[k] # None
  BY WireOK DEF IInv, TypeOK, AckedStored
<1>5. "idle" \in Labels BY DEF Labels
<1> HIDE DEF ans
<1>6. QED BY <1>1, <1>2, <1>3, <1>4, <1>5, HandlerStep

\* A redirect or a create moves on and leaves all shared state as it is.
LEMMA MoveOnStep ==
  ASSUME IInv, NEW r \in Reqs,
         NEW label \in Labels, NEW c \in Codes \cup {None},
         NEW l \in Links \cup {None}, NEW ans \in Answers \cup {None},
         pc' = [pc EXCEPT ![r] = label], code' = [code EXCEPT ![r] = c],
         link' = [link EXCEPT ![r] = l], answer' = [answer EXCEPT ![r] = ans],
         UNCHANGED <<now, db, cache, wire, acked>>,
         label = "insert" => l # None,
         label \in {"get", "select", "check"} => c # None,
         label \in {"check", "warm", "set"} => l # None /\ db[Code[l.id]] = l,
         label = "check" => db[c] = l,
         label \in {"warm", "set"} => ans # None,
         Truthful(ans)
  PROVE  IInv'
<1>1. /\ wire' \in SUBSET Sets /\ \A m \in wire' : SetOK(m)
      /\ acked' \in SUBSET Codes /\ \A k \in acked' : db[k] # None
  BY WireOK DEF IInv, TypeOK, AckedStored
<1>2. QED BY <1>1, HandlerStep
-----------------------------------------------------------------------------
\* Facts about the request a handler serves.
LEMMA InHand ==
  ASSUME IInv, NEW r \in Reqs
  PROVE  /\ pc[r] \in Labels /\ code[r] \in Codes \cup {None}
         /\ link[r] \in Links \cup {None} /\ answer[r] \in Answers \cup {None}
         /\ code' = code => code' = [code EXCEPT ![r] = code[r]]
         /\ link' = link => link' = [link EXCEPT ![r] = link[r]]
         /\ answer' = answer => answer' = [answer EXCEPT ![r] = answer[r]]
         /\ Truthful(answer[r])
  BY DEF IInv, TypeOK, CreatedIsStored, Truthful

LEMMA PostLinkStep == ASSUME IInv, NEW r \in Reqs, PostLink(r) PROVE IInv'
<1>1. PICK raw \in RawUrls, exp \in Exps :
        /\ code' = [code EXCEPT ![r] = None]
        /\ \/ Reject(r, 400)
           \/ Reject(r, 500)
           \/ /\ Acceptable(raw, exp, LocalNow(r))
              /\ \E id \in Ids :
                   link' = [link EXCEPT ![r] = [id |-> id, url |-> Normalize[raw], exp |-> exp]]
              /\ answer' = [answer EXCEPT ![r] = None]
              /\ GoTo(r, "insert")
        /\ UNCHANGED <<now, db, cache, wire, acked>>
  BY DEF PostLink
<1>2. CASE Reject(r, 400) \/ Reject(r, 500)
  <2>1. PICK status \in Statuses \ {201} : Reject(r, status)
    BY <1>2 DEF Statuses
  <2>2. PICK c \in Codes \cup {None} : code' = [code EXCEPT ![r] = c]
    BY <1>1
  <2>3. UNCHANGED <<now, db, cache, wire, acked>> BY <1>1
  <2>4. QED BY <2>1, <2>2, <2>3, RejectStep
<1>3. CASE /\ Acceptable(raw, exp, LocalNow(r))
           /\ \E id \in Ids :
                link' = [link EXCEPT ![r] = [id |-> id, url |-> Normalize[raw], exp |-> exp]]
           /\ answer' = [answer EXCEPT ![r] = None]
           /\ GoTo(r, "insert")
  <2>1. PICK id \in Ids :
          link' = [link EXCEPT ![r] = [id |-> id, url |-> Normalize[raw], exp |-> exp]]
    BY <1>3
  <2> DEFINE l == [id |-> id, url |-> Normalize[raw], exp |-> exp]
  <2>2. Normalize[raw] \in Urls BY <1>3, LinkServiceAssumption DEF Acceptable
  <2>3. l \in Links /\ l # None BY <2>2, LinkServiceAssumption DEF Links
  <2>4. "insert" \in Labels /\ pc' = [pc EXCEPT ![r] = "insert"]
    BY <1>3 DEF Labels, GoTo
  <2>5. link' = [link EXCEPT ![r] = l] BY <2>1
  <2>6. Truthful(None) BY DEF Truthful
  <2> HIDE DEF l
  <2>7. QED BY <1>1, <1>3, <2>3, <2>4, <2>5, <2>6, MoveOnStep
<1>4. QED BY <1>1, <1>2, <1>3

\* An INSERT that succeeds takes a free code and changes no other row.
LEMMA InsertLinkStep == ASSUME IInv, NEW r \in Reqs, InsertLink(r) PROVE IInv'
<1> USE DEF IInv
<1> DEFINE l == link[r]
           k == Code[l.id]
<1>1. l \in Links /\ l # None /\ pc[r] = "insert"
  BY DEF InsertLink, HandsHoldRows, TypeOK
<1>2. k \in Codes /\ l.id \in Ids BY <1>1, CodeType
<1>3. /\ db[k] = None
      /\ db' = [db EXCEPT ![k] = l]
      /\ UNCHANGED <<now, cache, wire, code, acked>>
      /\ \A q \in Reqs : q # r => pc'[q] = pc[q] /\ link'[q] = link[q] /\ answer'[q] = answer[q]
  BY DEF InsertLink, CanInsert, Decide, GoTo, Reject, Finish, TypeOK
<1>4. db'[k] = l /\ \A c \in Codes : c # k => db'[c] = db[c]
  BY <1>2, <1>3 DEF TypeOK
<1>5. \A c \in Codes : db[c] # None => c # k /\ db'[c] = db[c]
  BY <1>3, <1>4
<1>6. \/ /\ answer' = [answer EXCEPT ![r] = [status |-> 201, target |-> Target(l)]]
         /\ pc' = [pc EXCEPT ![r] = "warm"] /\ link' = link
      \/ /\ answer' = [answer EXCEPT ![r] = [status |-> 500, target |-> None]]
         /\ pc' = [pc EXCEPT ![r] = "idle"] /\ link' = [link EXCEPT ![r] = None]
  BY DEF InsertLink, Decide, GoTo, Reject, Finish
<1>7. /\ [status |-> 201, target |-> Target(l)] \in Answers
      /\ [status |-> 500, target |-> None] \in Answers
  BY <1>1, TargetType DEF Answers, Statuses
<1> HIDE DEF l, k
<1>8. TypeOK'
  <2>1. db' \in [Codes -> Links \cup {None}] BY <1>1, <1>2, <1>3 DEF TypeOK
  <2>2. answer' \in [Reqs -> Answers \cup {None}] BY <1>6, <1>7 DEF TypeOK
  <2>3. pc' \in [Reqs -> Labels] /\ link' \in [Reqs -> Links \cup {None}]
    BY <1>6 DEF TypeOK, Labels
  <2>4. QED BY <1>3, <2>1, <2>2, <2>3 DEF TypeOK
<1>9. RowsKeyed' BY <1>4, <1>5 DEF RowsKeyed, k
<1>10. HandsHoldRows'
  <2> SUFFICES ASSUME NEW q \in Reqs
               PROVE  /\ pc'[q] = "insert" => link'[q] # None
                      /\ pc'[q] \in {"get", "select", "check"} => code'[q] # None
                      /\ pc'[q] \in {"check", "warm", "set"} =>
                           link'[q] # None /\ db'[Code[link'[q].id]] = link'[q]
                      /\ pc'[q] = "check" => db'[code'[q]] = link'[q]
                      /\ pc'[q] \in {"warm", "set"} => answer'[q] # None
    BY DEF HandsHoldRows
  <2>1. CASE q = r
    <3>1. \/ pc'[r] = "idle"
          \/ /\ pc'[r] = "warm" /\ link'[r] = l
             /\ answer'[r] = [status |-> 201, target |-> Target(l)]
      BY <1>6 DEF TypeOK, l
    <3>2. pc'[r] = "warm" => answer'[r] # None
      BY <1>7, <3>1, LinkServiceAssumption
    <3>3. QED BY <1>1, <1>4, <2>1, <3>1, <3>2 DEF k
  <2>2. CASE q # r
    <3>1. link[q] \in Links => Code[link[q].id] \in Codes BY CodeType
    <3>2. pc[q] = "check" => code[q] \in Codes BY DEF HandsHoldRows, TypeOK
    <3>3. pc[q] \in {"check", "warm", "set"} => link[q] \in Links /\ link[q] # None
      BY DEF HandsHoldRows, TypeOK
    <3>4. QED BY <1>3, <1>5, <2>2, <3>1, <3>2, <3>3 DEF HandsHoldRows
  <2>3. QED BY <2>1, <2>2
<1>11. CacheAgreesWithDB' /\ WireInTime' /\ CacheExpiresInTime' /\ CacheUnexpired'
  <2>1. \A m \in wire : m.code \in Codes BY DEF TypeOK, Sets
  <2>2. CacheAgreesWithDB' BY <1>3, <1>5, <2>1 DEF CacheAgreesWithDB
  <2>3. WireInTime' BY <1>3, <1>5, <2>1 DEF WireInTime, CacheAgreesWithDB
  <2>4. CacheExpiresInTime'
    BY <1>3, <1>5 DEF CacheExpiresInTime, CacheAgreesWithDB, Late
  <2>5. CacheUnexpired' BY <1>3 DEF CacheUnexpired
  <2>6. QED BY <2>2, <2>3, <2>4, <2>5
<1>12. CreatedIsStored'
  <2> SUFFICES ASSUME NEW q \in Reqs, answer'[q] # None, answer'[q].status = 201
               PROVE  /\ answer'[q].target # None
                      /\ db'[Code[answer'[q].target.id]] # None
                      /\ answer'[q].target = Target(db'[Code[answer'[q].target.id]])
    BY DEF CreatedIsStored
  <2>1. CASE q = r
    <3>1. answer'[r] = [status |-> 201, target |-> Target(l)]
      BY <1>6, <2>1 DEF TypeOK
    <3>2. Code[answer'[r].target.id] = k BY <3>1 DEF Target, k
    <3>3. Target(l) # None BY <1>1, TargetType, LinkServiceAssumption
    <3>4. QED BY <1>1, <1>4, <2>1, <3>1, <3>2, <3>3
  <2>2. CASE q # r
    <3>1. answer[q] # None /\ answer[q].status = 201 BY <1>3, <2>2
    <3>2. /\ answer[q].target # None
          /\ db[Code[answer[q].target.id]] # None
          /\ answer[q].target = Target(db[Code[answer[q].target.id]])
      BY <3>1 DEF CreatedIsStored
    <3>3. Code[answer[q].target.id] \in Codes
      <4>1. answer[q] \in Answers BY <3>1 DEF TypeOK
      <4>2. answer[q].target \in Targets BY <3>2, <4>1 DEF Answers
      <4>3. QED BY <4>2, LinkServiceAssumption DEF Targets
    <3>4. QED BY <1>3, <1>5, <2>2, <3>2, <3>3
  <2>3. QED BY <2>1, <2>2
<1>13. AckedStored' BY <1>3, <1>5 DEF AckedStored, TypeOK
<1>14. QED BY <1>8, <1>9, <1>10, <1>11, <1>12, <1>13

LEMMA GetCodeStep == ASSUME IInv, NEW r \in Reqs, GetCode(r) PROVE IInv'
<1>1. PICK c \in Codes :
        /\ code' = [code EXCEPT ![r] = c]
        /\ answer' = [answer EXCEPT ![r] = None]
        /\ pc' = [pc EXCEPT ![r] = "get"]
        /\ UNCHANGED <<now, db, cache, wire, link, acked>>
  BY DEF GetCode, GoTo
<1>2. c # None /\ "get" \in Labels /\ Truthful(None)
  BY LinkServiceAssumption DEF Labels, Truthful
<1>3. QED BY <1>1, <1>2, InHand, MoveOnStep

LEMMA CacheHitStep == ASSUME IInv, NEW r \in Reqs, CacheHit(r) PROVE IInv'
<1> DEFINE ans == [status |-> 302, target |-> cache[code[r]].target]
<1>1. code[r] \in Codes BY DEF CacheHit, IInv, HandsHoldRows, TypeOK
<1>2. cache[code[r]].target \in Targets
  BY <1>1 DEF CacheHit, IsHit, IInv, TypeOK, Entries
<1>3. ans \in Answers /\ Truthful(ans) BY <1>2 DEF Answers, Statuses, Truthful
<1>4. /\ pc' = [pc EXCEPT ![r] = "idle"] /\ link' = [link EXCEPT ![r] = None]
      /\ answer' = [answer EXCEPT ![r] = ans] /\ code' = code
      /\ UNCHANGED <<now, db, cache, wire, acked>>
  BY DEF CacheHit, Decide, Finish, GoTo
<1>5. "idle" \in Labels BY DEF Labels
<1> HIDE DEF ans
<1>6. QED BY <1>3, <1>4, <1>5, InHand, MoveOnStep

LEMMA CacheMissStep == ASSUME IInv, NEW r \in Reqs, CacheMiss(r) PROVE IInv'
<1>1. /\ pc' = [pc EXCEPT ![r] = "select"]
      /\ UNCHANGED <<now, db, cache, wire, code, link, answer, acked>>
  BY DEF CacheMiss, GoTo
<1>2. code[r] # None BY DEF CacheMiss, IInv, HandsHoldRows
<1>3. "select" \in Labels BY DEF Labels
<1>4. QED BY <1>1, <1>2, <1>3, InHand, MoveOnStep

LEMMA SelectLinkStep == ASSUME IInv, NEW r \in Reqs, SelectLink(r) PROVE IInv'
<1>1. code[r] \in Codes /\ code[r] # None
  BY DEF SelectLink, IInv, HandsHoldRows, TypeOK
<1>2. UNCHANGED <<now, db, cache, wire, code, acked>> BY DEF SelectLink
<1>3. CASE Reject(r, 404) \/ Reject(r, 500)
  BY <1>2, <1>3, InHand, RejectStep DEF Statuses
<1>4. CASE /\ db[code[r]] # None
           /\ link' = [link EXCEPT ![r] = db[code[r]]]
           /\ GoTo(r, "check")
           /\ UNCHANGED answer
  <2> DEFINE l == db[code[r]]
  <2>1. l \in Links /\ l # None /\ Code[l.id] = code[r]
    BY <1>1, <1>4 DEF IInv, TypeOK, RowsKeyed
  <2>2. "check" \in Labels /\ pc' = [pc EXCEPT ![r] = "check"]
    BY <1>4 DEF Labels, GoTo
  <2>3. link' = [link EXCEPT ![r] = l] /\ db[Code[l.id]] = l /\ db[code[r]] = l
    BY <1>4, <2>1
  <2>4. /\ code' = [code EXCEPT ![r] = code[r]]
        /\ answer' = [answer EXCEPT ![r] = answer[r]]
        /\ answer[r] \in Answers \cup {None} /\ Truthful(answer[r])
    BY <1>2, <1>4, InHand
  <2> HIDE DEF l
  <2>5. QED BY <1>1, <1>2, <2>1, <2>2, <2>3, <2>4, MoveOnStep
<1>5. QED BY <1>3, <1>4 DEF SelectLink

LEMMA CheckExpiredStep == ASSUME IInv, NEW r \in Reqs, CheckExpired(r) PROVE IInv'
<1>1. UNCHANGED <<now, db, cache, wire, code, acked>> BY DEF CheckExpired
<1>2. CASE Reject(r, 410)
  BY <1>1, <1>2, InHand, RejectStep DEF Statuses
<1>3. CASE Decide(r, 302, Target(link[r])) /\ GoTo(r, "warm") /\ UNCHANGED link
  <2> DEFINE ans == [status |-> 302, target |-> Target(link[r])]
  <2>1. link[r] \in Links /\ link[r] # None /\ db[Code[link[r].id]] = link[r]
    BY DEF CheckExpired, IInv, HandsHoldRows, TypeOK
  <2>2. ans \in Answers BY <2>1, TargetType DEF Answers, Statuses
  <2>3. ans # None /\ Truthful(ans)
    <3>1. ans # None BY <2>2, LinkServiceAssumption
    <3>2. ans.status # 201 OBVIOUS
    <3>3. QED BY <3>1, <3>2 DEF Truthful
  <2>4. /\ "warm" \in Labels /\ pc' = [pc EXCEPT ![r] = "warm"]
        /\ answer' = [answer EXCEPT ![r] = ans]
    BY <1>3 DEF Labels, GoTo, Decide
  <2>5. /\ code' = [code EXCEPT ![r] = code[r]] /\ code[r] \in Codes \cup {None}
        /\ link' = [link EXCEPT ![r] = link[r]]
    BY <1>1, <1>3, InHand
  <2> HIDE DEF ans
  <2>6. QED BY <1>1, <2>1, <2>2, <2>3, <2>4, <2>5, MoveOnStep
<1>4. QED BY <1>2, <1>3 DEF CheckExpired
LEMMA InsertFailsStep == ASSUME IInv, NEW r \in Reqs, InsertFails(r) PROVE IInv'
<1>1. Reject(r, 500) /\ code' = code /\ UNCHANGED <<now, db, cache, wire, acked>>
  BY DEF InsertFails
<1>2. PICK c \in Codes \cup {None} : code' = [code EXCEPT ![r] = c]
  BY <1>1, InHand
<1>3. PICK status \in Statuses \ {201} : Reject(r, status) BY <1>1 DEF Statuses
<1>4. QED BY <1>1, <1>2, <1>3, RejectStep

LEMMA AbortStep == ASSUME IInv, NEW r \in Reqs, Abort(r) PROVE IInv'
<1>1. /\ pc' = [pc EXCEPT ![r] = "idle"] /\ link' = [link EXCEPT ![r] = None]
      /\ answer' = [answer EXCEPT ![r] = None] /\ code' = code
      /\ UNCHANGED <<now, db, cache, wire, acked>>
  BY DEF Abort, Finish, GoTo
<1>2. "idle" \in Labels /\ Truthful(None) BY DEF Labels, Truthful
<1>3. QED BY <1>1, <1>2, InHand, MoveOnStep

\* Sending an answer adds no code but that of a stored link.
LEMMA RespondAcks ==
  ASSUME IInv, NEW r \in Reqs, pc[r] \in {"warm", "set"}, Respond(r)
  PROVE  /\ pc' = [pc EXCEPT ![r] = "idle"] /\ link' = [link EXCEPT ![r] = None]
         /\ acked' \in SUBSET Codes /\ \A k \in acked' : db[k] # None
<1> USE DEF IInv
<1>1. link[r] \in Links /\ link[r] # None /\ db[Code[link[r].id]] = link[r]
  BY DEF HandsHoldRows, TypeOK
<1>2. Code[link[r].id] \in Codes BY <1>1, CodeType
<1>3. acked' \subseteq acked \cup {Code[link[r].id]} BY DEF Respond
<1>4. QED BY <1>1, <1>2, <1>3 DEF Respond, Finish, GoTo, AckedStored, TypeOK

LEMMA SetReturnsStep == ASSUME IInv, NEW r \in Reqs, SetReturns(r) PROVE IInv'
<1>1. /\ pc' = [pc EXCEPT ![r] = "idle"] /\ link' = [link EXCEPT ![r] = None]
      /\ acked' \in SUBSET Codes /\ \A k \in acked' : db[k] # None
  BY RespondAcks DEF SetReturns
<1>2. UNCHANGED <<now, db, cache, wire, code, answer>> BY DEF SetReturns
<1>3. wire' \in SUBSET Sets /\ \A m \in wire' : SetOK(m)
  BY <1>2, WireOK DEF IInv, TypeOK
<1>4. "idle" \in Labels BY DEF Labels
<1>5. QED BY <1>1, <1>2, <1>3, <1>4, InHand, HandlerStep

\* The SET of a link in hand is as it should be when it is sent.
LEMMA NewSetOK ==
  ASSUME IInv, NEW r \in Reqs, pc[r] = "warm", CacheTTLFor(link[r], LocalNow(r)) > 0
  PROVE  LET ttl == CacheTTLFor(link[r], LocalNow(r))
             set == [code |-> Code[link[r].id], target |-> Target(link[r]), ttl |-> ttl, sent |-> now]
         IN  set \in Sets /\ SetOK(set)
<1> USE DEF IInv
<1> DEFINE l == link[r]
           ttl == CacheTTLFor(l, LocalNow(r))
           set == [code |-> Code[l.id], target |-> Target(l), ttl |-> ttl, sent |-> now]
<1>1. l \in Links /\ l # None /\ db[Code[l.id]] = l
  BY DEF HandsHoldRows, TypeOK
<1>2. now \in Times /\ now \in Int BY DEF TypeOK, Times
<1>3. LocalNow(r) \in Int /\ LocalNow(r) >= now - Behind BY LocalNowType
<1>4. ttl \in Int /\ (l.exp # Never => l.exp \in Int /\ LocalNow(r) + ttl <= l.exp)
  BY <1>1, <1>3, TTLType
<1>5. MaxDelay \in Nat /\ Behind \in Nat /\ ttl > 0 BY LinkServiceAssumption
<1> HIDE DEF ttl
<1>6. set \in Sets BY <1>5, <1>1, <1>2, <1>4, CodeType, TargetType DEF Sets
<1>7. l.exp # Never => now + ttl <= l.exp + Behind BY <1>2, <1>3, <1>4, <1>5
<1>8. SetOK(set) BY <1>1, <1>2, <1>5, <1>7 DEF SetOK
<1>9. QED BY <1>6, <1>8 DEF ttl

LEMMA WarmCacheStep == ASSUME IInv, NEW r \in Reqs, WarmCache(r) PROVE IInv'
<1> DEFINE ttl == CacheTTLFor(link[r], LocalNow(r))
           set == [code |-> Code[link[r].id], target |-> Target(link[r]), ttl |-> ttl, sent |-> now]
<1>1. pc[r] = "warm" /\ UNCHANGED <<now, db, cache, code, answer>> BY DEF WarmCache
<1>2. "idle" \in Labels /\ "set" \in Labels BY DEF Labels
<1>3. ttl > 0 => set \in Sets /\ SetOK(set) BY <1>1, NewSetOK
<1>4. \/ Respond(r) /\ UNCHANGED wire
      \/ ttl > 0 /\ wire' = wire \cup {set} /\ GoTo(r, "set") /\ UNCHANGED <<link, acked>>
  BY DEF WarmCache
<1> HIDE DEF set, ttl
<1>5. CASE Respond(r) /\ UNCHANGED wire
  <2>1. /\ pc' = [pc EXCEPT ![r] = "idle"] /\ link' = [link EXCEPT ![r] = None]
        /\ acked' \in SUBSET Codes /\ \A k \in acked' : db[k] # None
    BY <1>1, <1>5, RespondAcks
  <2>2. wire' \in SUBSET Sets /\ \A m \in wire' : SetOK(m)
    BY <1>5, WireOK DEF IInv, TypeOK
  <2>3. QED BY <1>1, <1>2, <2>1, <2>2, InHand, HandlerStep
<1>6. CASE ttl > 0 /\ wire' = wire \cup {set} /\ GoTo(r, "set") /\ UNCHANGED <<link, acked>>
  <2>1. wire' \in SUBSET Sets /\ \A m \in wire' : SetOK(m)
    BY <1>3, <1>6, WireOK DEF IInv, TypeOK
  <2>2. acked' \in SUBSET Codes /\ \A k \in acked' : db[k] # None
    BY <1>6 DEF IInv, TypeOK, AckedStored
  <2>3. /\ pc' = [pc EXCEPT ![r] = "set"]
        /\ link' = [link EXCEPT ![r] = link[r]] /\ link[r] \in Links \cup {None}
        /\ link[r] # None /\ db[Code[link[r].id]] = link[r]
        /\ answer' = [answer EXCEPT ![r] = answer[r]] /\ answer[r] \in Answers \cup {None}
        /\ answer[r] # None /\ Truthful(answer[r])
        /\ code' = [code EXCEPT ![r] = code[r]] /\ code[r] \in Codes \cup {None}
    BY <1>1, <1>6, InHand DEF GoTo, IInv, HandsHoldRows
  <2>4. QED BY <1>1, <1>2, <2>1, <2>2, <2>3, HandlerStep
<1>7. QED BY <1>4, <1>5, <1>6

-----------------------------------------------------------------------------
\* A step of Redis, the network or time: the table and the handlers stand.
LEMMA OutsideStep ==
  ASSUME IInv, UNCHANGED <<db, pc, code, link, answer, acked>>,
         now' \in Times, cache' \in [Codes -> Entries \cup {None}],
         wire' \in SUBSET wire,
         \A m \in wire' : m.sent <= now' /\ now' <= m.sent + MaxDelay,
         \A c \in Codes : cache'[c] # None => cache'[c].until > now',
         \A c \in Codes : IsHit(cache'[c]) =>
           /\ db[c] # None /\ cache'[c].target = Target(db[c])
           /\ db[c].exp # Never => cache'[c].until <= db[c].exp + Late
  PROVE  IInv'
<1> USE DEF IInv
<1>1. TypeOK' BY DEF TypeOK
<1>2. RowsKeyed' /\ HandsHoldRows' /\ AckedStored'
  BY DEF RowsKeyed, HandsHoldRows, AckedStored
<1>3. CreatedIsStored' BY DEF CreatedIsStored
<1>4. CacheAgreesWithDB' BY DEF CacheAgreesWithDB
<1>5. WireInTime' BY DEF WireInTime
<1>6. CacheExpiresInTime' /\ CacheUnexpired'
  BY DEF CacheExpiresInTime, CacheUnexpired
<1>7. QED BY <1>1, <1>2, <1>3, <1>4, <1>5, <1>6
LEMMA RedisSetStep == ASSUME IInv, RedisSet PROVE IInv'
<1> USE DEF IInv
<1>1. PICK m \in wire :
        /\ cache' = [cache EXCEPT ![m.code] = [target |-> m.target, until |-> now + m.ttl]]
        /\ wire' = wire \/ wire' = wire \ {m}
  BY DEF RedisSet
<1>2. /\ m.code \in Codes /\ m.target \in Targets /\ m.ttl \in Nat /\ m.ttl > 0 /\ m.sent \in Int
      /\ now \in Int /\ now \in Times
  BY DEF TypeOK, Sets, Times
<1>3. SetOK(m) BY WireOK
<1>4. [target |-> m.target, until |-> now + m.ttl] \in Entries BY <1>2 DEF Entries
<1>5. cache' \in [Codes -> Entries \cup {None}] BY <1>1, <1>4 DEF TypeOK
<1>6. /\ cache'[m.code].target = m.target /\ cache'[m.code].until = now + m.ttl
      /\ \A c \in Codes : c # m.code => cache'[c] = cache[c]
  BY <1>1, <1>2 DEF TypeOK
<1>7. UNCHANGED <<now, db, pc, code, link, answer, acked>> BY DEF RedisSet
<1>8. wire' \in SUBSET wire /\ \A n \in wire' : n.sent <= now /\ now <= n.sent + MaxDelay
  BY <1>1 DEF WireInTime
<1>9. ASSUME NEW c \in Codes, cache'[c] # None PROVE cache'[c].until > now
  BY <1>2, <1>6, <1>9 DEF CacheUnexpired
<1>10. ASSUME NEW c \in Codes, IsHit(cache'[c])
       PROVE  /\ db[c] # None /\ cache'[c].target = Target(db[c])
              /\ db[c].exp # Never => cache'[c].until <= db[c].exp + Late
  <2>1. CASE c = m.code
    <3>1. db[c] # None /\ cache'[c].target = Target(db[c])
      BY <1>3, <1>6, <2>1 DEF SetOK
    <3>2. ASSUME db[c].exp # Never PROVE cache'[c].until <= db[c].exp + Late
      <4>1. db[c] \in Links BY <3>1 DEF TypeOK
      <4>2. db[c].exp \in Int BY <3>2, <4>1, LinkServiceAssumption DEF Links, Times
      <4>3. now <= m.sent + MaxDelay /\ m.sent + m.ttl <= db[c].exp + Behind
        BY <1>3, <2>1, <3>2 DEF SetOK
      <4>4. MaxDelay \in Int /\ Behind \in Int BY LinkServiceAssumption
      <4>5. QED BY <1>2, <1>6, <2>1, <4>2, <4>3, <4>4 DEF Late
    <3>3. QED BY <3>1, <3>2
  <2>2. CASE c # m.code
    BY <1>6, <1>10, <2>2 DEF CacheAgreesWithDB, CacheExpiresInTime
  <2>3. QED BY <2>1, <2>2
<1>11. QED BY <1>2, <1>5, <1>7, <1>8, <1>9, <1>10, OutsideStep

LEMMA RedisForgetsStep == ASSUME IInv, RedisLoses \/ RedisEvicts PROVE IInv'
<1> USE DEF IInv
<1>1. /\ UNCHANGED <<now, db, pc, code, link, answer, acked>>
      /\ cache' \in [Codes -> Entries \cup {None}]
      /\ \A c \in Codes : cache'[c] = None \/ cache'[c] = cache[c]
      /\ wire' \in SUBSET wire
  BY DEF RedisLoses, RedisEvicts, TypeOK
<1>2. now' \in Times /\ \A m \in wire' : m.sent <= now' /\ now' <= m.sent + MaxDelay
  BY <1>1 DEF WireInTime, TypeOK
<1>3. \A c \in Codes : cache'[c] # None => cache'[c].until > now'
  BY <1>1 DEF CacheUnexpired
<1>4. \A c \in Codes : IsHit(cache'[c]) =>
        /\ db[c] # None /\ cache'[c].target = Target(db[c])
        /\ db[c].exp # Never => cache'[c].until <= db[c].exp + Late
  BY <1>1 DEF CacheAgreesWithDB, CacheExpiresInTime, IsHit
<1>5. QED BY <1>1, <1>2, <1>3, <1>4, OutsideStep

LEMMA TickStep == ASSUME IInv, Tick PROVE IInv'
<1> USE DEF IInv
<1>1. /\ UNCHANGED <<db, pc, code, link, answer, acked>>
      /\ now \in Times /\ now' = now + 1 /\ now < MaxTime
      /\ wire' = {m \in wire : now' - m.sent <= MaxDelay}
      /\ cache' = [c \in Codes |-> IF cache[c] # None /\ cache[c].until <= now' THEN None ELSE cache[c]]
  BY DEF Tick, TypeOK
<1>2. now' \in Times /\ now \in Int BY <1>1, LinkServiceAssumption DEF Times
<1>3. cache' \in [Codes -> Entries \cup {None}] BY <1>1 DEF TypeOK
<1>4. \A m \in wire : m.sent \in Int BY DEF TypeOK, Sets, Times
<1>5. MaxDelay \in Int BY LinkServiceAssumption
<1>6. wire' \in SUBSET wire /\ \A m \in wire' : m.sent <= now' /\ now' <= m.sent + MaxDelay
  BY <1>1, <1>2, <1>4, <1>5 DEF WireInTime
<1>7. \A c \in Codes : cache'[c] # None => cache'[c] = cache[c] /\ ~(cache[c].until <= now')
  BY <1>1
<1>8. ASSUME NEW c \in Codes, cache'[c] # None PROVE cache'[c].until > now'
  <2>1. cache[c] \in Entries /\ cache'[c] = cache[c] BY <1>7, <1>8 DEF TypeOK
  <2>2. cache[c].until \in Int BY <2>1 DEF Entries
  <2>3. QED BY <1>1, <1>2, <1>7, <1>8, <2>1, <2>2
<1>9. \A c \in Codes : IsHit(cache'[c]) =>
        /\ db[c] # None /\ cache'[c].target = Target(db[c])
        /\ db[c].exp # Never => cache'[c].until <= db[c].exp + Late
  BY <1>7 DEF CacheAgreesWithDB, CacheExpiresInTime, IsHit
<1>10. QED BY <1>1, <1>2, <1>3, <1>6, <1>8, <1>9, OutsideStep

\* Each step of the service keeps the invariant.
LEMMA NextInvariant == ASSUME IInv, [Next]_vars PROVE IInv'
<1>1. ASSUME NEW r \in Reqs, Create(r) PROVE IInv'
  BY <1>1, PostLinkStep, InsertLinkStep, InsertFailsStep DEF Create
<1>2. ASSUME NEW r \in Reqs, Resolve(r) PROVE IInv'
  BY <1>2, GetCodeStep, CacheHitStep, CacheMissStep, SelectLinkStep, CheckExpiredStep DEF Resolve
<1>3. ASSUME NEW r \in Reqs, Warm(r) PROVE IInv'
  BY <1>3, WarmCacheStep, SetReturnsStep DEF Warm
<1>4. ASSUME NEW r \in Reqs, Abort(r) PROVE IInv' BY <1>4, AbortStep
<1>5. CASE RedisSet \/ RedisLoses \/ RedisEvicts \/ Tick
  BY <1>5, RedisSetStep, RedisForgetsStep, TickStep
<1>6. CASE UNCHANGED vars
  BY <1>6 DEF vars, IInv, TypeOK, RowsKeyed, HandsHoldRows, CacheAgreesWithDB, WireInTime,
              CacheExpiresInTime, CacheUnexpired, CreatedIsStored, AckedStored
<1>7. QED BY <1>1, <1>2, <1>3, <1>4, <1>5, <1>6 DEF Next

LEMMA Inductive == Spec => []IInv
BY InitInvariant, NextInvariant, PTL DEF Spec

-----------------------------------------------------------------------------
\* Every variable of the service keeps its type (service.go, redis.go: what is
\* stored and answered has the shape the code declares).
THEOREM TypeCorrect == Spec => []TypeOK
<1>1. IInv => TypeOK BY DEF IInv
<1>2. QED BY <1>1, Inductive, PTL

\* Redis never holds, nor is about to hold, anything but the row of its code
\* (service.go: Create, Resolve).
THEOREM CacheAgrees == Spec => []CacheAgreesWithDB
<1>1. IInv => CacheAgreesWithDB BY DEF IInv
<1>2. QED BY <1>1, Inductive, PTL

\* A cache entry outlives its link by at most MaxDelay + Behind
\* (service.go: cacheTTLFor).
THEOREM CacheExpires == Spec => []CacheExpiresInTime
<1>1. IInv => CacheExpiresInTime BY DEF IInv
<1>2. QED BY <1>1, Inductive, PTL

\* A 201 names the link the table holds (service.go: Create).
THEOREM CreatedStays == Spec => []CreatedIsStored
<1>1. IInv => CreatedIsStored BY DEF IInv
<1>2. QED BY <1>1, Inductive, PTL
-----------------------------------------------------------------------------
(***************************************************************************)
(* The refinement of LinkStore, one lemma for the steps that decide on an  *)
(* answer of each kind.                                                    *)
(***************************************************************************)
LEMMA PostLinkAsks == ASSUME IInv, NEW r \in Reqs, PostLink(r) PROVE Store!Ask(r)
<1>1. /\ \E c \in Codes \cup {None} : code' = [code EXCEPT ![r] = c]
      /\ UNCHANGED <<db, now>>
  BY DEF PostLink
<1>2. \/ answer' = [answer EXCEPT ![r] = None]
      \/ \E status \in {400, 500} : Store!Decide(r, status, None)
  BY DEF PostLink, Reject, Decide, Store!Decide
<1>3. QED BY <1>1, <1>2 DEF Store!Ask

LEMMA GetCodeAsks == ASSUME NEW r \in Reqs, GetCode(r) PROVE Store!Ask(r)
  BY DEF GetCode, Store!Ask

LEMMA InsertLinkStores == ASSUME IInv, NEW r \in Reqs, InsertLink(r) PROVE Store!Store(r)
<1>1. link[r] \in Links BY DEF InsertLink, IInv, HandsHoldRows, TypeOK
<1>2. Code[link[r].id] \in Codes BY <1>1, CodeType
<1>3. /\ db[Code[link[r].id]] = None
      /\ db' = [db EXCEPT ![Code[link[r].id]] = link[r]]
      /\ UNCHANGED <<now, code>>
  BY DEF InsertLink, CanInsert
<1>4. Store!Decide(r, 201, Store!Target(link[r])) \/ Store!Decide(r, 500, None)
  BY DEF InsertLink, Reject, Decide, Target, Store!Decide, Store!Target
<1>5. QED BY <1>1, <1>2, <1>3, <1>4 DEF Store!Store

\* A hit is served no later than its entry, which is not much later than its link.
LEMMA CacheHitRedirects == ASSUME IInv, NEW r \in Reqs, CacheHit(r) PROVE Store!Redirect(r)
<1> USE DEF IInv
<1> DEFINE c == code[r]
<1>1. c \in Codes BY DEF CacheHit, HandsHoldRows, TypeOK
<1>2. IsHit(cache[c]) /\ UNCHANGED <<now, db, code>> BY DEF CacheHit
<1>3. db[c] # None /\ cache[c].target = Target(db[c]) BY <1>1, <1>2 DEF CacheAgreesWithDB
<1>4. ASSUME db[c].exp # Never PROVE now <= db[c].exp + Late
  <2>1. cache[c].until > now /\ cache[c].until <= db[c].exp + Late
    BY <1>1, <1>2, <1>4 DEF CacheUnexpired, CacheExpiresInTime, IsHit
  <2>2. now \in Int /\ cache[c].until \in Int
    BY <1>1, <1>2 DEF TypeOK, Times, IsHit, Entries
  <2>3. db[c].exp \in Int
    BY <1>1, <1>3, <1>4, LinkServiceAssumption DEF TypeOK, Links, Times
  <2>4. Late \in Int BY LinkServiceAssumption DEF Late
  <2>5. QED BY <2>1, <2>2, <2>3, <2>4
<1>5. Store!Decide(r, 302, Store!Target(db[c]))
  BY <1>3 DEF CacheHit, Decide, Target, Store!Decide, Store!Target
<1>6. QED BY <1>1, <1>2, <1>3, <1>4, <1>5 DEF Store!Redirect

LEMMA SelectLinkDecides ==
  ASSUME IInv, NEW r \in Reqs, SelectLink(r)
  PROVE  Store!Refuse(r) \/ Store!Fail(r) \/ UNCHANGED Store!vars
<1>1. code[r] \in Codes BY DEF SelectLink, IInv, HandsHoldRows, TypeOK
<1>2. UNCHANGED <<now, db, code>> BY DEF SelectLink
<1>3. CASE UNCHANGED answer BY <1>2, <1>3 DEF Store!vars
<1>4. CASE db[code[r]] = None /\ Reject(r, 404)
  BY <1>1, <1>2, <1>4 DEF Reject, Decide, Store!Decide, Store!Refuse
<1>5. CASE Reject(r, 500)
  BY <1>2, <1>5 DEF Reject, Decide, Store!Decide, Store!Fail
<1>6. QED BY <1>3, <1>4, <1>5 DEF SelectLink

\* The check is made with a clock that differs from true time.
LEMMA CheckExpiredDecides ==
  ASSUME IInv, NEW r \in Reqs, CheckExpired(r)
  PROVE  Store!Redirect(r) \/ Store!Refuse(r)
<1> USE DEF IInv
<1> DEFINE l == link[r]
<1>1. code[r] \in Codes /\ l \in Links /\ l # None /\ db[code[r]] = l
  BY DEF CheckExpired, HandsHoldRows, TypeOK
<1>2. UNCHANGED <<now, db, code>> BY DEF CheckExpired
<1>3. /\ LocalNow(r) \in Int /\ now \in Int /\ Behind \in Nat /\ Ahead \in Nat /\ MaxDelay \in Nat
      /\ LocalNow(r) >= now - Behind /\ LocalNow(r) <= now + Ahead
      /\ (l.exp # Never => l.exp \in Int)
  BY <1>1, LocalNowType, LinkServiceAssumption DEF TypeOK, Times, Links
<1>4. CASE Expired(l, LocalNow(r)) /\ Reject(r, 410)
  <2>1. l.exp # Never /\ now > l.exp - Ahead BY <1>3, <1>4 DEF Expired
  <2>2. Store!Decide(r, 410, None) BY <1>4 DEF Reject, Decide, Store!Decide
  <2>3. QED BY <1>1, <1>2, <2>1, <2>2 DEF Store!Refuse
<1>5. CASE ~Expired(l, LocalNow(r)) /\ Decide(r, 302, Target(l))
  <2>1. l.exp # Never => now <= l.exp + Late BY <1>3, <1>5 DEF Expired, Late
  <2>2. Store!Decide(r, 302, Store!Target(l))
    BY <1>5 DEF Decide, Target, Store!Decide, Store!Target
  <2>3. QED BY <1>1, <1>2, <2>1, <2>2 DEF Store!Redirect
<1>6. QED BY <1>4, <1>5 DEF CheckExpired

\* Requests that share a cache are answered as LinkStore promises
\* (service.go, handlers.go: CreateLink, Redirect).
THEOREM ServiceImplementsLinkStore == Spec => ImplementsLinkStore
<1>1. Init => Store!Init BY DEF Init, Store!Init
<1>2. ASSUME IInv, [Next]_vars PROVE [Store!Next]_(Store!vars)
  <2>1. ASSUME NEW r \in Reqs, Create(r) PROVE Store!Next
    <3>1. CASE InsertFails(r)
      BY <3>1 DEF InsertFails, Reject, Decide, Store!Decide, Store!Fail, Store!Next
    <3>2. QED BY <1>2, <2>1, <3>1, PostLinkAsks, InsertLinkStores DEF Create, Store!Next
  <2>2. ASSUME NEW r \in Reqs, Resolve(r) PROVE Store!Next \/ UNCHANGED Store!vars
    <3>1. CASE CacheMiss(r) BY <3>1 DEF CacheMiss, Store!vars
    <3>2. QED
      BY <1>2, <2>2, <3>1, GetCodeAsks, CacheHitRedirects, SelectLinkDecides, CheckExpiredDecides
      DEF Resolve, Store!Next
  <2>3. ASSUME NEW r \in Reqs, Warm(r) PROVE UNCHANGED Store!vars
    BY <2>3 DEF Warm, WarmCache, SetReturns, Store!vars
  <2>4. ASSUME NEW r \in Reqs, Abort(r) PROVE Store!Next
    BY <2>4 DEF Abort, Store!GiveUp, Store!Next
  <2>5. CASE RedisSet \/ RedisLoses \/ RedisEvicts
    BY <2>5 DEF RedisSet, RedisLoses, RedisEvicts, Store!vars
  <2>6. CASE Tick
    <3>1. now' > now BY <1>2, <2>6 DEF Tick, IInv, TypeOK, Times
    <3>2. QED BY <2>6, <3>1 DEF Tick, Store!Tick, Store!Next
  <2>7. CASE UNCHANGED vars BY <2>7 DEF vars, Store!vars
  <2>8. QED BY <1>2, <2>1, <2>2, <2>3, <2>4, <2>5, <2>6, <2>7 DEF Next
<1>3. QED BY <1>1, <1>2, Inductive, PTL DEF Spec, ImplementsLinkStore, Store!Spec

\* No code whose 201 was sent is ever answered 404 (service.go: Resolve).
THEOREM AckedAreFound == Spec => AckedLinksAreFound
<1> DEFINE Found == \A r \in Reqs :
             answer'[r] # answer[r] /\ answer'[r] # None /\ answer'[r].status = 404 =>
               code[r] \notin acked
<1>1. ASSUME IInv, [Next]_vars PROVE Found
  <2> USE <1>1 DEF IInv
  <2> SUFFICES ASSUME NEW r \in Reqs, answer'[r] # answer[r],
                      answer'[r] # None, answer'[r].status = 404
               PROVE  code[r] \notin acked
    OBVIOUS
  <2>1. ASSUME NEW q \in Reqs, NEW status, NEW target,
               Decide(q, status, target), status # 404
        PROVE  FALSE
    BY <2>1 DEF Decide, TypeOK
  <2>2. ASSUME NEW q \in Reqs, Create(q) PROVE FALSE
    <3>1. CASE PostLink(q)
      <4>1. \/ Decide(q, 400, None) \/ Decide(q, 500, None)
            \/ answer' = [answer EXCEPT ![q] = None]
        BY <3>1 DEF PostLink, Reject
      <4>2. QED BY <2>1, <4>1 DEF TypeOK
    <3>2. CASE InsertLink(q) BY <2>1, <3>2 DEF InsertLink, Reject
    <3>3. CASE InsertFails(q) BY <2>1, <3>3 DEF InsertFails, Reject
    <3>4. QED BY <2>2, <3>1, <3>2, <3>3 DEF Create
  <2>3. ASSUME NEW q \in Reqs, Resolve(q), ~(q = r /\ db[code[r]] = None) PROVE FALSE
    <3>1. CASE GetCode(q) BY <3>1 DEF GetCode, TypeOK
    <3>2. CASE CacheHit(q) BY <2>1, <3>2 DEF CacheHit
    <3>3. CASE CacheMiss(q) BY <3>3 DEF CacheMiss
    <3>4. CASE SelectLink(q)
      <4>1. CASE Reject(q, 404) /\ q # r BY <4>1 DEF Reject, Decide, TypeOK
      <4>2. CASE Reject(q, 500) BY <2>1, <4>2 DEF Reject
      <4>3. QED BY <2>3, <3>4, <4>1, <4>2 DEF SelectLink
    <3>5. CASE CheckExpired(q) BY <2>1, <3>5 DEF CheckExpired, Reject
    <3>6. QED BY <2>3, <3>1, <3>2, <3>3, <3>4, <3>5 DEF Resolve
  <2>4. CASE db[code[r]] = None
    BY <2>4 DEF AckedStored
  <2>5. CASE db[code[r]] # None
    <3>1. \A q \in Reqs : ~Create(q) /\ ~Resolve(q) BY <2>2, <2>3, <2>5
    <3>2. \A q \in Reqs : ~Warm(q) BY DEF Warm, WarmCache, SetReturns
    <3>3. \A q \in Reqs : ~Abort(q) BY DEF Abort, TypeOK
    <3>4. ~RedisSet /\ ~RedisLoses /\ ~RedisEvicts /\ ~Tick /\ ~UNCHANGED vars
      BY DEF RedisSet, RedisLoses, RedisEvicts, Tick, vars
    <3>5. QED BY <1>1, <3>1, <3>2, <3>3, <3>4 DEF Next
  <2>6. QED BY <2>4, <2>5
<1>2. IInv /\ [Next]_vars => [Found]_vars BY <1>1
<1>3. Spec => [][Found]_vars BY <1>2, Inductive, PTL DEF Spec
<1>4. QED BY <1>3 DEF AckedLinksAreFound

=============================================================================
