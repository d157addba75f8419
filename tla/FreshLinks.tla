----------------------------- MODULE FreshLinks -----------------------------
(***************************************************************************)
(* LinkService on the promise of its IDGenerator: as long as no ID has     *)
(* been drawn twice, as in IdSource, and different IDs have different      *)
(* codes, as in ShortCode.  History variables record whether it is kept.   *)
(***************************************************************************)
EXTENDS ValidLinks

ASSUME FreshLinksAssumption == \A i, j \in Ids : Code[i] = Code[j] => i = j

VARIABLES
  drawn,    \* history: the IDs drawn for links, those of the rows at the start too
  repeated  \* history: an ID has been drawn that had been drawn before

freshVars == <<vars, drawn, repeated>>

FreshInit ==
  /\ Init
  /\ drawn = {db[c].id : c \in {d \in Codes : db[d] # None}}
  /\ repeated = FALSE

\* The IDs of the links that this step takes in hand.
NewIds == {link'[r].id : r \in {q \in Reqs : pc[q] = "idle" /\ pc'[q] = "insert"}}

DrawIds ==
  /\ drawn' = drawn \cup NewIds
  /\ repeated' = (repeated \/ NewIds \cap drawn # {})

FreshNext == Next /\ DrawIds

FreshSpec == FreshInit /\ [][FreshNext]_freshVars

-----------------------------------------------------------------------------
\* While the generators keep their promise no INSERT meets a conflict, of the
\* primary key or of short_code, whatever other requests have in hand, whichever
\* of them were aborted, and whichever replies were lost.  So a conflict does mean
\* what the comment on it says, two processes with one WORKER_ID, and Create need
\* not try again with another ID (postgres.go: Create; service.go: Create).
InsertsGoThrough == ~repeated => \A r \in Reqs : pc[r] = "insert" => CanInsert(link[r])

(***************************************************************************)
(* Why it holds: rows and hands share the IDs that were drawn.             *)
(***************************************************************************)
Inserting(r) == pc[r] = "insert"

IdsDrawn ==
  /\ \A c \in Codes : db[c] # None => db[c].id \in drawn
  /\ \A r \in Reqs : Inserting(r) => link[r].id \in drawn

IdsApart == ~repeated =>
  /\ \A r \in Reqs, c \in Codes : Inserting(r) /\ db[c] # None => db[c].id # link[r].id
  /\ \A r, q \in Reqs : Inserting(r) /\ Inserting(q) /\ link[r].id = link[q].id => r = q

=============================================================================
