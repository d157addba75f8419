------------------------------- MODULE Listing -------------------------------
(***************************************************************************)
(* GET /api/v1/links: httpapi.ListLinks, Service.ListByUser and the query  *)
(* of Postgres.ListByUser, as a client uses them to read all the links of  *)
(* its user, one page after another, while links are created.              *)
(*                                                                         *)
(* The query numbers the rows of the user from 0, newest first, and        *)
(* returns those whose numbers lie in the page.  A page is one statement,  *)
(* so it reads one state of the table; a page that fails with 500 is asked *)
(* for again.  created_at is read from the clock of the creating host      *)
(* before the INSERT, so rows do not arrive in the order they are listed.  *)
(***************************************************************************)
EXTENDS Integers, FiniteSets

CONSTANTS
  Users, Ids,
  Times,        \* values of created_at
  DefaultPage,  \* 20 in the code
  MaxPage,      \* 100 in the code
  Limits,       \* values of ?limit= a client may send
  NoUser

ASSUME ListingAssumption ==
  /\ Ids \subseteq Int
  /\ Times \subseteq Int
  /\ DefaultPage \in Nat \ {0}
  /\ MaxPage \in Nat \ {0}
  /\ Limits \subseteq Int
  /\ NoUser \notin Users

Links == [id : Ids, user : Users, created : Times]

VARIABLES
  rows,    \* the table links
  user,    \* whose links the client is reading, or has read; NoUser at first
  limit,   \* the limit it sends with every page
  offset,  \* the offset of its next page
  seen,    \* what it has read
  twice,   \* what it has read more than once
  known,   \* history: the links of user when it began
  done     \* it got an empty page

vars == <<rows, user, limit, offset, seen, twice, known, done>>

TypeOK ==
  /\ rows \subseteq Links /\ IsFiniteSet(rows)
  /\ user \in Users \cup {NoUser}
  /\ limit \in Limits
  /\ offset \in Nat
  /\ seen \subseteq Links /\ IsFiniteSet(seen)
  /\ twice \subseteq seen
  /\ known \subseteq rows
  /\ done \in BOOLEAN

Init ==
  /\ rows = {}
  /\ user = NoUser
  /\ limit \in Limits
  /\ offset = 0
  /\ seen = {} /\ twice = {} /\ known = {}
  /\ done = FALSE

-----------------------------------------------------------------------------
\* WHERE user_id = $1
Of(u) == {l \in rows : l.user = u}

\* ORDER BY created_at DESC, id DESC
Newer(l, m) == l.created > m.created \/ (l.created = m.created /\ l.id > m.id)

\* The number of a row in the list of its user.
Rank(l) == Cardinality({m \in Of(l.user) : Newer(m, l)})

PageSize(n) == IF n <= 0 \/ n > MaxPage THEN DefaultPage ELSE n

\* Mutant: offsets count from one.
PageStartFromOne(o) == IF o <= 1 THEN 0 ELSE o - 1

PageStart(o) == IF o < 0 THEN 0 ELSE o

\* Mutant: LIMIT $3 OFFSET $2.
PageSwapped(u, n, o) ==
  {l \in Of(u) : PageSize(n) <= Rank(l) /\ Rank(l) < PageSize(n) + PageStart(o)}

\* LIMIT $2 OFFSET $3
Page(u, n, o) ==
  {l \in Of(u) : PageStart(o) <= Rank(l) /\ Rank(l) < PageStart(o) + PageSize(n)}

\* Mutant: ON CONFLICT (id) DO UPDATE.
InsertOrReplace == \E l \in Links :
  /\ rows' = {m \in rows : m.id # l.id} \cup {l}
  /\ UNCHANGED <<user, limit, offset, seen, twice, known, done>>

\* Some process creates a link; its ID is new (IdSource).
Insert == \E l \in Links :
  /\ \A m \in rows : m.id # l.id
  /\ rows' = rows \cup {l}
  /\ UNCHANGED <<user, limit, offset, seen, twice, known, done>>

\* The client starts to read from the first page.
Begin(u) ==
  /\ user = NoUser
  /\ user' = u
  /\ known' = Of(u)
  /\ UNCHANGED <<rows, limit, offset, seen, twice, done>>

\* It gets a page, and will skip as many links in the next request; an empty page
\* is the end.
ReadPage ==
  LET page == Page(user, limit, offset)
  IN  /\ user # NoUser /\ ~done
      /\ twice' = twice \cup (seen \cap page)
      /\ seen' = seen \cup page
      /\ offset' = offset + Cardinality(page)
      /\ done' = (page = {})
      /\ UNCHANGED <<rows, user, limit, known>>

Next == Insert \/ (\E u \in Users : Begin(u)) \/ ReadPage

Spec == Init /\ [][Next]_vars

-----------------------------------------------------------------------------
(***************************************************************************)
(* Properties.                                                             *)
(***************************************************************************)
\* A client that reads to the end has read every link its user had when it
\* began, wherever in the list others were inserted meanwhile and whatever limit
\* it sent, and no other user's (postgres.go: ListByUser; service.go: ListByUser).
WalkFindsAll == done => known \subseteq seen /\ seen \subseteq Of(user)

\* A page repeats a link only if a link of the user was inserted since the client
\* began: pages of an unchanged list do not overlap (postgres.go: ListByUser).
RepeatsOnlyAfterInsert == twice # {} => Of(user) # known

-----------------------------------------------------------------------------
(***************************************************************************)
(* Why they hold.                                                          *)
(***************************************************************************)
\* What the client keeps is of its user, and untouched until it begins.
Untouched == user = NoUser => offset = 0 /\ ~done
OwnLinks == known \cup seen \subseteq Of(user)

\* What has not been read yet is listed at the offset or after it.
UnreadAhead == \A l \in known \ seen : Rank(l) >= offset

\* In an unchanged list everything before the offset, and nothing after it, has
\* been read.
ReadBehind == user # NoUser /\ Of(user) = known => \A l \in seen : Rank(l) < offset

IInv ==
  /\ TypeOK /\ Untouched /\ OwnLinks /\ UnreadAhead /\ ReadBehind
  /\ WalkFindsAll /\ RepeatsOnlyAfterInsert

=============================================================================
