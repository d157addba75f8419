-------------------------- MODULE FreshLinks_proofs --------------------------
(***************************************************************************)
(* Proofs about FreshLinks: with IDs that are drawn once an INSERT never   *)
(* meets a conflict, for any number of requests and IDs.                   *)
(***************************************************************************)
EXTENDS FreshLinks, LinkService_proofs

\* What the proofs need of the types.
Domains == /\ DOMAIN pc = Reqs /\ DOMAIN link = Reqs /\ DOMAIN answer = Reqs /\ DOMAIN db = Codes

\* It is part of LinkService's invariant.
LEMMA DomainsKnown == ASSUME IInv PROVE Domains
  BY DEF IInv, TypeOK, Domains

\* No request takes a link in hand that it did not have.
NoNewHands == \A r \in Reqs : pc'[r] = "insert" => pc[r] = "insert" /\ link'[r] = link[r]

\* Without a new link in hand the history of IDs stands still.
LEMMA NothingDrawn ==
  ASSUME NoNewHands, DrawIds
  PROVE  drawn' = drawn /\ (repeated => repeated')
<1>1. \A q \in Reqs : ~(pc[q] = "idle" /\ pc'[q] = "insert") BY DEF NoNewHands
<1>2. {q \in Reqs : pc[q] = "idle" /\ pc'[q] = "insert"} = {} BY <1>1
<1>3. NewIds = {} BY <1>2 DEF NewIds
<1>4. QED BY <1>3 DEF DrawIds

\* PostLink refuses, or takes a link with the ID it has drawn in hand.
LEMMA PostLinkDraws ==
  ASSUME IInv, IdsDrawn, IdsApart, DrawIds, NEW r \in Reqs, PostLink(r)
  PROVE  IdsDrawn' /\ IdsApart'
<1>1. Domains BY DomainsKnown
<1>2. db' = db BY DEF PostLink
<1>3. CASE \E status \in {400, 500} : Reject(r, status)
  <2>1. NoNewHands BY <1>1, <1>3 DEF Reject, Finish, GoTo, NoNewHands, Domains
  <2>2. drawn' = drawn /\ (repeated => repeated') BY <2>1, NothingDrawn
  <2>3. QED BY <1>2, <2>1, <2>2 DEF IdsDrawn, IdsApart, Inserting, NoNewHands
<1>4. CASE ~\E status \in {400, 500} : Reject(r, status)
  <2>1. PICK l : /\ pc[r] = "idle"
                 /\ link' = [link EXCEPT ![r] = l]
                 /\ pc' = [pc EXCEPT ![r] = "insert"]
    BY <1>4 DEF PostLink, GoTo
  <2>2. /\ pc'[r] = "insert" /\ link'[r] = l
        /\ \A q \in Reqs : q # r => pc'[q] = pc[q] /\ link'[q] = link[q]
    BY <1>1, <2>1 DEF Domains
  <2>3. NewIds = {l.id} BY <2>1, <2>2 DEF NewIds
  <2>4. drawn' = drawn \cup {l.id} /\ (~repeated' => ~repeated /\ l.id \notin drawn)
    BY <2>3 DEF DrawIds
  <2>5. IdsDrawn' BY <1>2, <2>2, <2>4 DEF IdsDrawn, Inserting
  <2>6. ASSUME ~repeated'
        PROVE  /\ \A q \in Reqs, c \in Codes : pc'[q] = "insert" /\ db'[c] # None => db'[c].id # link'[q].id
               /\ \A p, q \in Reqs : pc'[p] = "insert" /\ pc'[q] = "insert" /\ link'[p].id = link'[q].id
                                       => p = q
    <3>1. ~repeated /\ l.id \notin drawn BY <2>4, <2>6
    <3>2. \A q \in Reqs : q # r /\ pc'[q] = "insert" => link'[q].id \in drawn
      BY <2>2 DEF IdsDrawn, Inserting
    <3>3. \A c \in Codes : db'[c] # None => db'[c].id \in drawn BY <1>2 DEF IdsDrawn
    <3>4. QED BY <1>2, <2>2, <3>1, <3>2, <3>3 DEF IdsApart, Inserting
  <2>7. IdsApart' BY <2>6 DEF IdsApart, Inserting
  <2>8. QED BY <2>5, <2>7
<1>5. QED BY <1>3, <1>4

\* The link in hand becomes a row, and is in hand no longer.
LEMMA InsertLinkKeepsApart ==
  ASSUME IInv, IdsDrawn, IdsApart, DrawIds, NEW r \in Reqs, InsertLink(r)
  PROVE  IdsDrawn' /\ IdsApart'
<1>1. Domains BY DomainsKnown
<1>2. NoNewHands /\ pc[r] = "insert" /\ pc'[r] # "insert"
  BY <1>1 DEF InsertLink, Reject, Finish, GoTo, NoNewHands, Domains
<1>3. drawn' = drawn /\ (repeated => repeated') BY <1>2, NothingDrawn
<1>4. \A c \in Codes : db'[c] = db[c] \/ db'[c] = link[r] BY <1>1 DEF InsertLink, Domains
<1>5. \A q \in Reqs : pc'[q] = "insert" => q # r /\ pc[q] = "insert" /\ link'[q] = link[q]
  BY <1>2 DEF NoNewHands
<1>6. link[r].id \in drawn BY <1>2 DEF IdsDrawn, Inserting
<1>7. IdsDrawn' BY <1>3, <1>4, <1>5, <1>6 DEF IdsDrawn, Inserting
<1>8. IdsApart' BY <1>2, <1>3, <1>4, <1>5 DEF IdsApart, Inserting
<1>9. QED BY <1>7, <1>8

\* All other steps leave the rows as they are, and give no request a new link.
LEMMA OtherStep ==
  ASSUME IInv, NEW r \in Reqs, InsertFails(r) \/ Resolve(r) \/ Warm(r) \/ Abort(r)
  PROVE  NoNewHands /\ db' = db
<1>1. Domains BY DomainsKnown
<1> USE <1>1 DEF NoNewHands, Domains, Reject, Finish, GoTo
<1>2. CASE InsertFails(r) BY <1>2 DEF InsertFails
<1>3. CASE Resolve(r)
  <2>1. CASE GetCode(r) BY <2>1 DEF GetCode
  <2>2. CASE CacheHit(r) BY <2>2 DEF CacheHit
  <2>3. CASE CacheMiss(r) BY <2>3 DEF CacheMiss
  <2>4. CASE SelectLink(r) BY <2>4 DEF SelectLink
  <2>5. CASE CheckExpired(r) BY <2>5 DEF CheckExpired
  <2>6. QED BY <1>3, <2>1, <2>2, <2>3, <2>4, <2>5 DEF Resolve
<1>4. CASE Warm(r) BY <1>4 DEF Warm, WarmCache, SetReturns, Respond
<1>5. CASE Abort(r) BY <1>5 DEF Abort
<1>6. QED BY <1>2, <1>3, <1>4, <1>5

\* Such a step keeps IDs apart.
LEMMA QuietStep ==
  ASSUME IdsDrawn, IdsApart, NoNewHands, db' = db, drawn' = drawn, repeated => repeated'
  PROVE  IdsDrawn' /\ IdsApart'
  BY DEF IdsDrawn, IdsApart, Inserting, NoNewHands

\* Every step keeps IDs drawn and apart (service.go: Create; postgres.go: Create).
LEMMA FreshInvariant ==
  ASSUME IInv, IdsDrawn, IdsApart, [FreshNext]_freshVars
  PROVE  IdsDrawn' /\ IdsApart'
<1>1. CASE UNCHANGED freshVars
  <2>1. NoNewHands /\ db' = db /\ drawn' = drawn /\ (repeated => repeated')
    BY <1>1 DEF freshVars, vars, NoNewHands
  <2>2. QED BY <2>1, QuietStep
<1>2. CASE FreshNext
  <2>1. DrawIds /\ Next BY <1>2 DEF FreshNext
  <2>2. ASSUME NoNewHands, db' = db PROVE IdsDrawn' /\ IdsApart'
    BY <2>1, <2>2, NothingDrawn, QuietStep
  <2>3. ASSUME NEW r \in Reqs, Create(r) \/ Resolve(r) \/ Warm(r) \/ Abort(r)
        PROVE  IdsDrawn' /\ IdsApart'
    <3>1. CASE PostLink(r) BY <2>1, <3>1, PostLinkDraws
    <3>2. CASE InsertLink(r) BY <2>1, <3>2, InsertLinkKeepsApart
    <3>3. CASE InsertFails(r) \/ Resolve(r) \/ Warm(r) \/ Abort(r) BY <2>2, <3>3, OtherStep
    <3>4. QED BY <2>3, <3>1, <3>2, <3>3 DEF Create
  <2>4. CASE RedisSet \/ RedisLoses \/ RedisEvicts \/ Tick
    <3>1. NoNewHands /\ db' = db
      BY <2>4 DEF RedisSet, RedisLoses, RedisEvicts, Tick, NoNewHands
    <3>2. QED BY <2>2, <3>1
  <2>5. QED BY <2>1, <2>3, <2>4 DEF Next
<1>3. QED BY <1>1, <1>2

\* At the start nobody has a link in hand, and the rows' IDs count as drawn.
LEMMA FreshInitInvariant == ASSUME FreshInit PROVE IdsDrawn /\ IdsApart
<1>1. \A r \in Reqs : pc[r] # "insert" BY DEF FreshInit, Init
<1>2. \A c \in Codes : db[c] # None => db[c].id \in drawn BY DEF FreshInit
<1>3. QED BY <1>1, <1>2 DEF IdsDrawn, IdsApart, Inserting

-----------------------------------------------------------------------------
\* As long as no ID is drawn twice and codes name their IDs, which
\* FleetImplementsIdSource and DecodeInvertsEncode show of the generator and of
\* short codes, every INSERT finds its two keys free (service.go: Create;
\* postgres.go: Create).
THEOREM FreshIdsAreInserted == FreshSpec => []InsertsGoThrough
<1>1. ASSUME IInv, IdsDrawn, IdsApart PROVE InsertsGoThrough
  <2> SUFFICES ASSUME ~repeated, NEW r \in Reqs, pc[r] = "insert" PROVE CanInsert(link[r])
    BY DEF InsertsGoThrough
  <2>1. \A c \in Codes : db[c] # None => db[c].id # link[r].id BY <1>1 DEF IdsApart, Inserting
  <2>2. link[r].id \in Ids /\ Code[link[r].id] \in Codes
    <3>1. link[r] \in Links BY <1>1 DEF IInv, TypeOK, HandsHoldRows
    <3>2. QED BY <3>1, CodeType
  <2>3. db[Code[link[r].id]] = None
    <3> DEFINE c == Code[link[r].id]
    <3>1. SUFFICES ASSUME db[c] # None PROVE FALSE OBVIOUS
    <3>2. Code[db[c].id] = c BY <1>1, <2>2, <3>1 DEF IInv, RowsKeyed
    <3>3. db[c].id \in Ids BY <1>1, <2>2, <3>1 DEF IInv, TypeOK, Links
    <3>4. db[c].id = link[r].id BY <2>2, <3>2, <3>3, FreshLinksAssumption
    <3>5. QED BY <2>1, <2>2, <3>1, <3>4
  <2>4. QED BY <2>1, <2>3 DEF CanInsert
<1>2. FreshInit => IInv /\ IdsDrawn /\ IdsApart
  BY FreshInitInvariant, InitInvariant DEF FreshInit
<1>3. IInv /\ IdsDrawn /\ IdsApart /\ [FreshNext]_freshVars => (IInv /\ IdsDrawn /\ IdsApart)'
  <2>1. [FreshNext]_freshVars => [Next]_vars BY DEF FreshNext, freshVars
  <2>2. QED BY <2>1, NextInvariant, FreshInvariant
<1>4. QED BY <1>1, <1>2, <1>3, PTL DEF FreshSpec

=============================================================================
