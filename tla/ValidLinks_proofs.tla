-------------------------- MODULE ValidLinks_proofs --------------------------
(***************************************************************************)
(* Proofs about ValidLinks: wherever a URL comes from, it has passed the   *)
(* rules, for every number of requests and whatever is submitted.          *)
(***************************************************************************)
EXTENDS ValidLinks, LinkService_proofs

\* What is written of a URL that is not refused passes in turn.
LEMMA WrittenIsValid ==
  ASSUME NEW raw \in RawUrls, Normalize[raw] # None
  PROVE  IsValid(Normalize[raw])
<1> DEFINE url == Written(raw)
           size == raw.length + raw.grows - raw.tail
<1>1. raw \in UrlForms /\ Normalize[raw] = url /\ ~IsRefused(raw)
  BY UrlRulesAssumption DEF NormalizeAndValidateURL
<1>2. /\ size \in 1 .. 3 * raw.length /\ maxURLLength \in Nat
      /\ raw.length \in Nat /\ raw.tail \in Nat /\ raw.grows \in Int
  BY <1>1, UrlRulesAssumption DEF UrlForms
<1>3. url = [spaces |-> raw.tail > 1, length |-> size, grows |-> 0, tail |-> 0,
             parses |-> raw.parses, scheme |-> Lower(raw.scheme), host |-> raw.host]
  BY <1>1 DEF Written, UrlForms
<1> HIDE DEF url, size
<1>4. /\ url.length = size /\ url.scheme = Lower(raw.scheme) /\ url.host = raw.host
      /\ url.grows = 0 /\ url.tail = 0
  BY <1>3
<1>5. url.parses = raw.parses BY <1>3
<1>6. /\ raw.length # 0 /\ ~(raw.length > maxURLLength) /\ raw.parses
      /\ Lower(raw.scheme) \in {"http", "https"}
      /\ raw.host # "" /\ Lower(raw.host) \notin InternalHosts
  BY <1>1, Zenon DEF IsRefused, isBlockedHost
<1>7. raw.host \notin InternalHosts \cup {"", "LOCALHOST"}
  BY <1>6 DEF Lower, InternalHosts, Localhosts, InternalIPs
<1>8. url.length \in 1 .. 3 * maxURLLength
  <2>1. raw.length # 0 /\ ~(raw.length > maxURLLength) BY <1>6
  <2>2. QED BY <1>2, <1>4, <2>1
<1>9. IsPublic(url)
  <2>1. url.parses BY <1>5, <1>6, Zenon
  <2>2. url.scheme \in {"http", "https"} /\ url.host \notin InternalHosts \cup {"", "LOCALHOST"}
    BY <1>4, <1>6, <1>7
  <2>3. QED BY <1>8, <2>1, <2>2, Zenon DEF IsPublic
<1>10. ASSUME url.length <= maxURLLength PROVE IsStable(url)
  <2>1. Lower(Lower(raw.scheme)) = Lower(raw.scheme) BY <1>6 DEF Lower
  <2>2. Lower(url.scheme) \in {"http", "https"} /\ url.host # "" /\ Lower(url.host) \notin InternalHosts
    BY <1>4, <1>6, <2>1
  <2>3. url.length # 0 /\ ~(url.length > maxURLLength) BY <1>2, <1>8, <1>10
  <2>4. url.parses BY <1>5, <1>6, Zenon
  <2>5. ~IsRefused(url) BY <2>2, <2>3, <2>4, Zenon DEF IsRefused, isBlockedHost
  <2>6. Written(url) = [url EXCEPT !.spaces = FALSE]
    <3>0. (0 > 1) = FALSE OBVIOUS
    <3>1. Written(url) = [url EXCEPT !.spaces = FALSE, !.scheme = Lower(url.scheme),
                            !.length = url.length + 0 - 0, !.grows = 0, !.tail = 0]
      BY <1>3, <1>4, <3>0, Zenon DEF Written
    <3>2. url.length + 0 - 0 = url.length /\ Lower(url.scheme) = url.scheme
      BY <1>4, <1>8, <2>1
    <3>3. QED BY <1>3, <1>4, <3>1, <3>2
  <2>7. QED BY <2>5, <2>6 DEF IsStable, NormalizeAndValidateURL
<1>11. QED BY <1>1, <1>9, <1>10 DEF IsValid

LEMMA UrlsCheckedInit == ASSUME Init PROVE UrlsChecked
<1>1. ASSUME NEW c \in Codes, db[c] # None PROVE IsValid(db[c].url)
  <2>1. db[c] = OldLinks[c] BY <1>1 DEF Init
  <2>2. OldLinks[c] \in Links /\ OldLinks[c].url # None
    BY <1>1, <2>1, LinkServiceAssumption DEF Links
  <2>3. QED BY <1>1, <2>1, <2>2, WrittenIsValid, UrlRulesAssumption
<1>2. QED BY <1>1 DEF Init, UrlsChecked

\* A step that leaves the rows, takes no new link in hand and answers with a
\* checked URL.
LEMMA AnsweringStep ==
  ASSUME UrlsChecked, db' = db,
         \A r \in Reqs : pc'[r] = "insert" => pc[r] = "insert" /\ link'[r] = link[r],
         \A r \in Reqs : \/ answer'[r] = answer[r]
                         \/ answer'[r] = None
                         \/ answer'[r].target = None
                         \/ IsValid(answer'[r].target.url)
  PROVE  UrlsChecked'
<1>1. \A c \in Codes : db'[c] # None => IsValid(db'[c].url) BY DEF UrlsChecked
<1>2. \A r \in Reqs : pc'[r] = "insert" => IsValid(link'[r].url) BY DEF UrlsChecked
<1>3. \A r \in Reqs : answer'[r] # None /\ answer'[r].target # None => IsValid(answer'[r].target.url)
  BY DEF UrlsChecked
<1>4. QED BY <1>1, <1>2, <1>3 DEF UrlsChecked, IsValid, IsPublic, IsStable

\* Create takes in hand what has passed the rules.
LEMMA PostLinkChecks ==
  ASSUME IInv, UrlsChecked, NEW r \in Reqs, PostLink(r)
  PROVE  UrlsChecked'
<1>1. DOMAIN pc = Reqs /\ DOMAIN link = Reqs /\ DOMAIN answer = Reqs BY DEF IInv, TypeOK
<1>2. CASE \E status \in {400, 500} : Reject(r, status)
  <2>1. PICK status \in {400, 500} : Reject(r, status) BY <1>2
  <2>2. /\ \A q \in Reqs : pc'[q] = "insert" => pc[q] = "insert" /\ link'[q] = link[q]
        /\ \A q \in Reqs : answer'[q] = answer[q] \/ answer'[q].target = None
    BY <1>1, <2>1 DEF Reject, Decide, Finish, GoTo
  <2>3. QED BY <2>2, AnsweringStep DEF PostLink
<1>3. CASE ~\E status \in {400, 500} : Reject(r, status)
  <2>1. PICK raw \in RawUrls, exp \in Exps, id \in Ids :
          /\ Acceptable(raw, exp, LocalNow(r))
          /\ link' = [link EXCEPT ![r] = [id |-> id, url |-> Normalize[raw], exp |-> exp]]
          /\ answer' = [answer EXCEPT ![r] = None]
          /\ GoTo(r, "insert")
          /\ UNCHANGED <<now, db, cache, wire, acked>>
    BY <1>3 DEF PostLink
  <2>2. IsValid(Normalize[raw]) BY <2>1, WrittenIsValid DEF Acceptable
  <2>3. \A q \in Reqs : pc'[q] = "insert" => IsValid(link'[q].url)
    BY <1>1, <2>1, <2>2 DEF UrlsChecked, GoTo
  <2>4. \A q \in Reqs : answer'[q] = None \/ answer'[q] = answer[q] BY <1>1, <2>1
  <2>5. QED BY <2>1, <2>3, <2>4 DEF UrlsChecked, IsValid, IsPublic, IsStable
<1>4. QED BY <1>2, <1>3

\* The row that is inserted is the link in hand.
LEMMA InsertLinkChecks ==
  ASSUME IInv, UrlsChecked, NEW r \in Reqs, InsertLink(r)
  PROVE  UrlsChecked'
<1>1. /\ DOMAIN pc = Reqs /\ DOMAIN link = Reqs /\ DOMAIN answer = Reqs /\ DOMAIN db = Codes
      /\ pc[r] = "insert"
  BY DEF IInv, TypeOK, InsertLink
<1>2. IsValid(link[r].url) BY <1>1 DEF UrlsChecked
<1>3. \A c \in Codes : db'[c] = db[c] \/ db'[c] = link[r] BY <1>1 DEF InsertLink
<1>4. \A q \in Reqs : pc'[q] = "insert" => pc[q] = "insert" /\ link'[q] = link[q]
  BY <1>1 DEF InsertLink, Reject, Finish, GoTo
<1>5. \A q \in Reqs : \/ answer'[q] = answer[q] \/ answer'[q].target = None
                      \/ answer'[q].target = Target(link[r])
  BY <1>1 DEF InsertLink, Reject, Decide
<1>6. Target(link[r]).url = link[r].url BY DEF Target
<1>7. \A c \in Codes : db'[c] # None => IsValid(db'[c].url) BY <1>2, <1>3 DEF UrlsChecked
<1>8. \A q \in Reqs : pc'[q] = "insert" => IsValid(link'[q].url) BY <1>4 DEF UrlsChecked
<1>9. \A q \in Reqs : answer'[q] # None /\ answer'[q].target # None => IsValid(answer'[q].target.url)
  BY <1>2, <1>5, <1>6 DEF UrlsChecked
<1>10. QED BY <1>7, <1>8, <1>9 DEF UrlsChecked, IsValid, IsPublic, IsStable

\* A redirect goes to the URL of a row, which a hit repeats.
LEMMA ResolveChecks ==
  ASSUME IInv, UrlsChecked, NEW r \in Reqs, Resolve(r)
  PROVE  UrlsChecked'
<1> USE DEF IInv, Statuses
<1>1. DOMAIN pc = Reqs /\ DOMAIN link = Reqs /\ DOMAIN answer = Reqs BY DEF TypeOK
<1>2. ASSUME UNCHANGED db,
             \A q \in Reqs : pc'[q] = "insert" => pc[q] = "insert" /\ link'[q] = link[q],
             \/ UNCHANGED answer
             \/ answer' = [answer EXCEPT ![r] = None]
             \/ \E status \in Statuses : Decide(r, status, None)
             \/ \E status \in Statuses, c \in Codes :
                  db[c] # None /\ Decide(r, status, Target(db[c]))
      PROVE  UrlsChecked'
  <2>1. \A c \in Codes : db[c] # None => IsValid(Target(db[c]).url) BY DEF UrlsChecked, Target
  <2>2. QED BY <1>1, <1>2, <2>1, AnsweringStep DEF Decide
<1>3. CASE GetCode(r) BY <1>1, <1>2, <1>3 DEF GetCode, GoTo
<1>4. CASE CacheHit(r)
  <2>1. code[r] \in Codes BY <1>4 DEF CacheHit, HandsHoldRows, TypeOK
  <2>2. db[code[r]] # None /\ cache[code[r]].target = Target(db[code[r]])
    BY <1>4, <2>1 DEF CacheHit, CacheAgreesWithDB
  <2>3. UNCHANGED db /\ \A q \in Reqs : pc'[q] = "insert" => pc[q] = "insert" /\ link'[q] = link[q]
    BY <1>1, <1>4 DEF CacheHit, Finish, GoTo
  <2>4. Decide(r, 302, Target(db[code[r]])) BY <1>4, <2>2 DEF CacheHit
  <2>5. QED BY <1>2, <2>1, <2>2, <2>3, <2>4
<1>5. CASE CacheMiss(r) BY <1>1, <1>2, <1>5 DEF CacheMiss, GoTo
<1>6. CASE SelectLink(r) BY <1>1, <1>2, <1>6 DEF SelectLink, Reject, Finish, GoTo
<1>7. CASE CheckExpired(r)
  <2>1. code[r] \in Codes /\ db[code[r]] # None /\ db[code[r]] = link[r]
    BY <1>7, LinkServiceAssumption DEF CheckExpired, HandsHoldRows, TypeOK
  <2>2. UNCHANGED db /\ \A q \in Reqs : pc'[q] = "insert" => pc[q] = "insert" /\ link'[q] = link[q]
    BY <1>1, <1>7 DEF CheckExpired, Reject, Finish, GoTo
  <2>3. Decide(r, 410, None) \/ Decide(r, 302, Target(db[code[r]]))
    BY <1>7, <2>1 DEF CheckExpired, Reject
  <2>4. QED BY <1>2, <2>1, <2>2, <2>3
<1>8. QED BY <1>3, <1>4, <1>5, <1>6, <1>7 DEF Resolve

LEMMA UrlsCheckedNext == ASSUME IInv, UrlsChecked, [Next]_vars PROVE UrlsChecked'
<1>1. DOMAIN pc = Reqs /\ DOMAIN link = Reqs /\ DOMAIN answer = Reqs BY DEF IInv, TypeOK
<1>2. ASSUME NEW r \in Reqs, InsertFails(r) PROVE UrlsChecked'
  <2>1. /\ \A q \in Reqs : pc'[q] = "insert" => pc[q] = "insert" /\ link'[q] = link[q]
        /\ \A q \in Reqs : answer'[q] = answer[q] \/ answer'[q].target = None
    BY <1>1, <1>2 DEF InsertFails, Reject, Decide, Finish, GoTo
  <2>2. QED BY <1>2, <2>1, AnsweringStep DEF InsertFails
<1>3. ASSUME NEW r \in Reqs, Create(r) PROVE UrlsChecked'
  BY <1>2, <1>3, PostLinkChecks, InsertLinkChecks DEF Create
<1>4. ASSUME NEW r \in Reqs, Resolve(r) PROVE UrlsChecked' BY <1>4, ResolveChecks
<1>5. ASSUME NEW r \in Reqs, Warm(r) \/ Abort(r) PROVE UrlsChecked'
  <2>1. /\ UNCHANGED db
        /\ \A q \in Reqs : pc'[q] = "insert" => pc[q] = "insert" /\ link'[q] = link[q]
        /\ \A q \in Reqs : answer'[q] = answer[q] \/ answer'[q] = None
    BY <1>1, <1>5 DEF Warm, WarmCache, SetReturns, Respond, Abort, Finish, GoTo
  <2>2. QED BY <2>1, AnsweringStep
<1>6. CASE RedisSet \/ RedisLoses \/ RedisEvicts \/ Tick \/ UNCHANGED vars
  <2>1. UNCHANGED <<db, pc, link, answer>>
    BY <1>6 DEF RedisSet, RedisLoses, RedisEvicts, Tick, vars
  <2>2. QED BY <2>1, AnsweringStep
<1>7. QED BY <1>3, <1>4, <1>5, <1>6 DEF Next

\* Nobody is ever sent to a URL that Create would refuse for anything but its
\* length, whether it comes from the table, from Redis or from a SET on its way,
\* and submitted again it loses at most spaces at its end (validate.go:
\* NormalizeAndValidateURL; service.go: Create, Resolve).
THEOREM TargetsStayValid == Spec => []TargetsAreValid
<1>1. ASSUME IInv, UrlsChecked PROVE TargetsAreValid
  <2>1. \A c \in Codes : db[c] # None => IsValid(Target(db[c]).url)
    BY <1>1 DEF UrlsChecked, Target
  <2>2. \A c \in {d \in Codes : db[d] # None} : IsValid(db[c].url) BY <1>1 DEF UrlsChecked
  <2>3. \A c \in {d \in Codes : IsHit(cache[d])} : IsValid(cache[c].target.url)
    BY <1>1, <2>1 DEF IInv, CacheAgreesWithDB
  <2>4. \A m \in wire : IsValid(m.target.url)
    <3>1. \A m \in wire : m.code \in Codes BY <1>1 DEF IInv, TypeOK, Sets
    <3>2. QED BY <1>1, <2>1, <3>1 DEF IInv, CacheAgreesWithDB
  <2>5. \A r \in {s \in Reqs : answer[s] # None /\ answer[s].target # None} :
          IsValid(answer[r].target.url)
    BY <1>1 DEF UrlsChecked
  <2>6. QED BY <2>2, <2>3, <2>4, <2>5 DEF TargetsAreValid
<1>2. QED BY <1>1, UrlsCheckedInit, UrlsCheckedNext, Inductive, PTL DEF Spec

=============================================================================
