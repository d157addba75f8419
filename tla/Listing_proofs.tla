--------------------------- MODULE Listing_proofs ---------------------------
(***************************************************************************)
(* Proofs about Listing: reading page by page by offset finds everything   *)
(* and repeats nothing of an unchanged list, for every number of links and *)
(* users and every size of page.                                           *)
(***************************************************************************)
EXTENDS Listing, FiniteSetTheorems, TLAPS

-----------------------------------------------------------------------------
(***************************************************************************)
(* The query numbers the rows of a user from 0 without a gap.              *)
(***************************************************************************)

TableOK == rows \subseteq Links /\ IsFiniteSet(rows)

\* The rows listed before l.
Before(l) == {m \in Of(l.user) : Newer(m, l)}

\* A row has finitely many rows before it, so its number is a natural number.
LEMMA RankType ==
  ASSUME TableOK, NEW l
  PROVE  /\ IsFiniteSet(Of(l.user)) /\ IsFiniteSet(Before(l))
         /\ Rank(l) = Cardinality(Before(l)) /\ Rank(l) \in Nat
<1>1. Of(l.user) \in SUBSET rows /\ Before(l) \in SUBSET Of(l.user)
  BY DEF Of, Before
<1>2. IsFiniteSet(Of(l.user))
  BY <1>1, FS_Subset DEF TableOK
<1>3. IsFiniteSet(Before(l))
  BY <1>1, <1>2, FS_Subset
<1>4. Rank(l) = Cardinality(Before(l))
  BY DEF Rank, Before
<1> QED
  BY <1>2, <1>3, <1>4, FS_CardinalityType

\* Newer orders the rows of a user strictly and totally.
LEMMA NewerOrder ==
  ASSUME NEW l \in Links, NEW m \in Links, NEW x \in Links
  PROVE  /\ ~Newer(l, l)
         /\ Newer(x, l) /\ Newer(l, m) => Newer(x, m)
         /\ l.user = m.user => Newer(l, m) \/ Newer(m, l) \/ l = m
<1>1. /\ l.created \in Int /\ m.created \in Int /\ x.created \in Int
      /\ l.id \in Int /\ m.id \in Int /\ x.id \in Int
  BY ListingAssumption DEF Links
<1>2. l.user = m.user /\ l.created = m.created /\ l.id = m.id => l = m
  BY DEF Links
<1>3. ~Newer(l, l) /\ (Newer(x, l) /\ Newer(l, m) => Newer(x, m))
  BY <1>1 DEF Newer
<1>4. Newer(l, m) \/ Newer(m, l) \/ (l.created = m.created /\ l.id = m.id)
  BY <1>1 DEF Newer
<1> QED
  BY <1>2, <1>3, <1>4

\* A newer row has a smaller number.
LEMMA RankStrict ==
  ASSUME TableOK, NEW u, NEW l \in Of(u), NEW m \in Of(u), Newer(l, m)
  PROVE  Rank(l) < Rank(m)
<1>1. /\ l \in Links /\ m \in Links /\ l.user = u /\ m.user = u
  BY DEF Of, TableOK
<1>2. l \in Before(m) /\ l \notin Before(l)
  BY <1>1, NewerOrder DEF Before
<1>3. Before(l) \subseteq Before(m)
  <2> SUFFICES ASSUME NEW x \in Before(l)
               PROVE  x \in Before(m)
    OBVIOUS
  <2>1. x \in Of(u) /\ x \in Links /\ Newer(x, l)
    BY <1>1 DEF Before, Of, TableOK
  <2>2. Newer(x, m)
    BY <1>1, <2>1, NewerOrder
  <2> QED
    BY <1>1, <2>1, <2>2 DEF Before
<1>4. Before(l) \cup {l} \in SUBSET Before(m)
  BY <1>2, <1>3
<1>5. Cardinality(Before(l) \cup {l}) = Rank(l) + 1
  BY <1>2, RankType, FS_AddElement
<1>6. Cardinality(Before(l) \cup {l}) <= Rank(m)
  BY <1>4, RankType, FS_Subset
<1> QED
  BY <1>5, <1>6, RankType

\* No two rows of a user have the same number.
LEMMA RankInjective ==
  ASSUME TableOK, NEW u, NEW l \in Of(u), NEW m \in Of(u), Rank(l) = Rank(m)
  PROVE  l = m
<1>1. /\ l \in Links /\ m \in Links /\ l.user = u /\ m.user = u
  BY DEF Of, TableOK
<1>2. ~Newer(l, m) /\ ~Newer(m, l)
  BY RankStrict, RankType
<1> QED
  BY <1>1, <1>2, NewerOrder

\* So n numbers belong to at most n rows.
LEMMA RankCount ==
  ASSUME TableOK, NEW u, NEW S \in SUBSET Of(u), NEW a \in Nat, NEW n \in Nat,
         \A l \in S : a <= Rank(l) /\ Rank(l) < a + n
  PROVE  IsFiniteSet(S) /\ Cardinality(S) \in Nat /\ Cardinality(S) <= n
<1> DEFINE f == [l \in S |-> Rank(l)]
<1>1. f \in [S -> a .. a + n - 1]
  BY RankType
<1>2. \A l, m \in S : f[l] = f[m] => l = m
  BY RankInjective
<1>3. f \in Injection(S, a .. a + n - 1)
  BY <1>1, <1>2 DEF Injection, IsInjective
<1>4. IsFiniteSet(a .. a + n - 1) /\ Cardinality(a .. a + n - 1) = n
  <2>1. a + n - 1 \in Int
    OBVIOUS
  <2>2. /\ IsFiniteSet(a .. a + n - 1)
        /\ Cardinality(a .. a + n - 1) =
             IF a > a + n - 1 THEN 0 ELSE (a + n - 1) - a + 1
    BY <2>1, FS_Interval
  <2> QED
    BY <2>2
<1> HIDE DEF f
<1> QED
  BY <1>3, <1>4, FS_Injection, FS_CardinalityType

\* And there is no gap: where a number is taken, so is every smaller one.
LEMMA RankHit ==
  ASSUME TableOK, NEW u, NEW l \in Of(u), NEW o \in Nat, o < Rank(l)
  PROVE  \E m \in Of(u) : Rank(m) = o
<1> DEFINE r == Rank(l)
           f == [m \in Before(l) |-> Rank(m)]
<1>1. r \in Nat /\ IsFiniteSet(Before(l)) /\ Cardinality(Before(l)) = r
  BY RankType
<1>2. Before(l) \subseteq Of(u) /\ l.user = u
  BY DEF Before, Of
<1>3. \A m \in Before(l) : Rank(m) \in 0 .. r - 1
  <2> TAKE m \in Before(l)
  <2>1. m \in Of(u) /\ Newer(m, l)
    BY <1>2 DEF Before
  <2>2. Rank(m) < r
    BY <2>1, RankStrict
  <2> QED
    BY <1>1, <2>2, RankType
<1>4. f \in [Before(l) -> 0 .. r - 1]
  BY <1>3
<1>5. \A m, k \in Before(l) : f[m] = f[k] => m = k
  BY <1>2, RankInjective
<1>6. f \in Injection(Before(l), 0 .. r - 1)
  BY <1>4, <1>5 DEF Injection, IsInjective
<1>7. IsFiniteSet(0 .. r - 1) /\ Cardinality(0 .. r - 1) = r
  <2> HIDE DEF r
  <2>1. 0 \in Int /\ r - 1 \in Int
    BY <1>1
  <2>2. /\ IsFiniteSet(0 .. r - 1)
        /\ Cardinality(0 .. r - 1) = IF 0 > r - 1 THEN 0 ELSE (r - 1) - 0 + 1
    BY <2>1, FS_Interval
  <2> QED
    BY <1>1, <2>2
<1>8. f \in Surjection(Before(l), 0 .. r - 1)
  BY <1>1, <1>6, <1>7, FS_Injection
<1>9. o \in 0 .. r - 1
  BY <1>1
<1>10. \E m \in Before(l) : f[m] = o
  <2> HIDE DEF f
  <2> QED
    BY <1>8, <1>9 DEF Surjection
<1> QED
  BY <1>2, <1>10

-----------------------------------------------------------------------------
(***************************************************************************)
(* A page, and what lies behind it.                                        *)
(***************************************************************************)
LEMMA PageSizeType ==
  ASSUME NEW n \in Int
  PROVE  PageSize(n) \in Nat \ {0}
  BY ListingAssumption DEF PageSize

\* A page has at most as many rows as it has room for.
LEMMA PageBounded ==
  ASSUME TableOK, NEW u, NEW n \in Int, NEW o \in Nat
  PROVE  /\ Page(u, n, o) \subseteq Of(u)
         /\ \A l \in Page(u, n, o) : o <= Rank(l) /\ Rank(l) < o + PageSize(n)
         /\ \A l \in Of(u) \ Page(u, n, o) : Rank(l) < o \/ o + PageSize(n) <= Rank(l)
         /\ IsFiniteSet(Page(u, n, o))
         /\ Cardinality(Page(u, n, o)) \in Nat
         /\ Cardinality(Page(u, n, o)) <= PageSize(n)
<1>1. PageStart(o) = o
  BY DEF PageStart
<1>2. PageSize(n) \in Nat
  BY PageSizeType
<1>3. Page(u, n, o) \in SUBSET Of(u)
  BY DEF Page
<1>4. \A l \in Page(u, n, o) : o <= Rank(l) /\ Rank(l) < o + PageSize(n)
  BY <1>1 DEF Page
<1>5. \A l \in Of(u) \ Page(u, n, o) : Rank(l) < o \/ o + PageSize(n) <= Rank(l)
  <2> TAKE l \in Of(u) \ Page(u, n, o)
  <2>1. ~(o <= Rank(l) /\ Rank(l) < o + PageSize(n))
    BY <1>1 DEF Page
  <2> QED
    BY <1>2, <2>1, RankType
<1>6. /\ IsFiniteSet(Page(u, n, o)) /\ Cardinality(Page(u, n, o)) \in Nat
      /\ Cardinality(Page(u, n, o)) <= PageSize(n)
  BY <1>2, <1>3, <1>4, RankCount
<1> QED
  BY <1>3, <1>4, <1>5, <1>6

\* Nothing lies behind an empty page.
LEMMA EmptyPageIsLast ==
  ASSUME TableOK, NEW u, NEW n \in Int, NEW o \in Nat, Page(u, n, o) = {},
         NEW l \in Of(u)
  PROVE  Rank(l) < o
<1> SUFFICES ASSUME ~(Rank(l) < o)
             PROVE  FALSE
  OBVIOUS
<1>1. \E m \in Of(u) : Rank(m) = o
  BY RankHit, RankType
<1>2. PICK m \in Of(u) : Rank(m) = o
  BY <1>1
<1>3. m \in Of(u) \ Page(u, n, o)
  OBVIOUS
<1>4. Rank(m) < o \/ o + PageSize(n) <= Rank(m)
  BY <1>3, PageBounded
<1> QED
  BY <1>2, <1>4, PageSizeType

\* A page of k rows holds the numbers o to o + k - 1.
LEMMA PageIsContiguous ==
  ASSUME TableOK, NEW u, NEW n \in Int, NEW o \in Nat, NEW l \in Page(u, n, o)
  PROVE  Rank(l) < o + Cardinality(Page(u, n, o))
<1> DEFINE P == Page(u, n, o)
           A == {m \in Before(l) : Rank(m) < o}
           B == Before(l) \ A
<1>1. l \in Of(u) /\ l.user = u
  BY PageBounded DEF Of
<1>2. Before(l) \subseteq Of(u)
  BY <1>1 DEF Before
<1>3. IsFiniteSet(Before(l)) /\ Rank(l) = Cardinality(Before(l)) /\ Rank(l) \in Nat
  BY RankType
<1>4. IsFiniteSet(A) /\ Cardinality(A) \in Nat /\ Cardinality(A) <= o
  <2>1. A \in SUBSET Of(u)
    BY <1>2
  <2>2. \A m \in A : 0 <= Rank(m) /\ Rank(m) < 0 + o
    BY RankType
  <2> HIDE DEF A
  <2> QED
    BY <2>1, <2>2, RankCount
<1>5. B \in SUBSET (P \ {l})
  <2> SUFFICES ASSUME NEW m \in B
               PROVE  m \in P /\ m # l
    OBVIOUS
  <2>1. m \in Of(u) /\ Newer(m, l) /\ ~(Rank(m) < o)
    BY <1>2 DEF Before
  <2>2. Rank(m) < Rank(l)
    BY <1>1, <2>1, RankStrict
  <2>3. Rank(l) < o + PageSize(n) /\ PageSize(n) \in Nat /\ Rank(m) \in Nat
    BY PageBounded, PageSizeType, RankType
  <2>4. ~(Rank(m) < o \/ o + PageSize(n) <= Rank(m))
    BY <1>3, <2>1, <2>2, <2>3
  <2>5. m \in P
    BY <2>1, <2>4, PageBounded
  <2> QED
    BY <1>3, <2>2, <2>5
<1>6. IsFiniteSet(P \ {l}) /\ Cardinality(P \ {l}) = Cardinality(P) - 1
  BY PageBounded, FS_RemoveElement
<1>7. IsFiniteSet(B) /\ Cardinality(B) <= Cardinality(P) - 1
  BY <1>5, <1>6, FS_Subset
<1>8. Before(l) = A \cup B /\ A \cap B = {}
  OBVIOUS
<1>9. Cardinality(Before(l)) = Cardinality(A) + Cardinality(B)
  <2> HIDE DEF A, B
  <2>1. Cardinality(A \cup B) = Cardinality(A) + Cardinality(B) - Cardinality(A \cap B)
    BY <1>4, <1>7, FS_Union
  <2>2. Cardinality(A \cap B) = 0
    BY <1>8, FS_EmptySet
  <2>3. Cardinality(B) \in Nat
    BY <1>7, FS_CardinalityType
  <2> QED
    BY <1>4, <1>8, <2>1, <2>2, <2>3
<1>10. Cardinality(B) \in Nat /\ Cardinality(P) \in Nat
  BY <1>7, PageBounded, FS_CardinalityType
<1> HIDE DEF A, B, P
<1>11. Rank(l) < o + Cardinality(P)
  BY <1>3, <1>4, <1>7, <1>9, <1>10
<1> QED
  BY <1>11 DEF P

-----------------------------------------------------------------------------
(***************************************************************************)
(* The invariant.                                                          *)
(***************************************************************************)
\* The invariant holds at first and is kept by every step.
LEMMA InitInv == Init => IInv
<1> SUFFICES ASSUME Init PROVE IInv
  OBVIOUS
<1>1. IsFiniteSet({})
  BY FS_EmptySet
<1>2. TypeOK
  BY <1>1 DEF Init, TypeOK
<1> QED
  BY <1>2 DEF Init, IInv, Untouched, OwnLinks, UnreadAhead, ReadBehind, WalkFindsAll,
              RepeatsOnlyAfterInsert, Of

\* Another link may push those of its user down the list, never up.
LEMMA InsertInv == IInv /\ Insert => IInv'
<1> SUFFICES ASSUME IInv, Insert PROVE IInv'
  OBVIOUS
<1> USE DEF IInv
<1>1. PICK l \in Links : rows' = rows \cup {l}
  BY DEF Insert
<1>2. UNCHANGED <<user, limit, offset, seen, twice, known, done>>
  BY DEF Insert
<1>3. TableOK /\ TableOK'
  <2>1. IsFiniteSet(rows \cup {l})
    BY FS_AddElement DEF TypeOK
  <2> QED
    BY <1>1, <2>1 DEF TypeOK, TableOK
<1>4. TypeOK'
  BY <1>1, <1>2, <1>3 DEF TypeOK, TableOK
<1>5. \A u : Of(u) \subseteq Of(u)'
  BY <1>1 DEF Of
<1>6. Untouched' /\ OwnLinks'
  BY <1>2, <1>5 DEF Untouched, OwnLinks
<1>7. ASSUME NEW k
      PROVE  Rank(k) <= Rank(k)' /\ Rank(k) \in Nat /\ Rank(k)' \in Nat
  <2>1. Before(k) \in SUBSET (Before(k)')
    BY <1>5 DEF Before
  <2>2. IsFiniteSet(Before(k)') /\ Rank(k)' = Cardinality(Before(k)') /\ Rank(k)' \in Nat
    <3>1. Before(k)' = {m \in Of(k.user)' : Newer(m, k)}
      BY DEF Before, Newer
    <3>2. Rank(k)' = Cardinality(Before(k)')
      BY <3>1 DEF Rank, Newer
    <3>3. Before(k)' \in SUBSET (rows')
      BY <3>1 DEF Of
    <3>4. IsFiniteSet(Before(k)')
      BY <1>3, <3>3, FS_Subset DEF TableOK
    <3> QED
      BY <3>2, <3>4, FS_CardinalityType
  <2> QED
    BY <1>3, <2>1, <2>2, RankType, FS_Subset
<1>8. UnreadAhead'
  BY <1>2, <1>7 DEF UnreadAhead, TypeOK
<1>9. ASSUME (Of(user) = known)'
      PROVE  Of(user) = known /\ rows' \cap {m \in rows' : m.user = user} = Of(user)
  BY <1>2, <1>5, <1>9 DEF OwnLinks, Of
<1>10. ReadBehind'
  <2> SUFFICES ASSUME user # NoUser, (Of(user) = known)', NEW k \in seen
               PROVE  Rank(k)' < offset
    BY <1>2 DEF ReadBehind
  <2>1. k.user = user
    BY DEF OwnLinks, Of
  <2>2. Of(user)' = Of(user)
    BY <1>2, <1>9 DEF Of
  <2>3. Rank(k)' = Rank(k)
    BY <1>2, <2>1, <2>2 DEF Rank, Newer
  <2> QED
    BY <1>9, <2>3 DEF ReadBehind
<1>11. WalkFindsAll'
  BY <1>2, <1>6 DEF WalkFindsAll, OwnLinks
<1>12. RepeatsOnlyAfterInsert'
  BY <1>2, <1>9 DEF RepeatsOnlyAfterInsert
<1> QED
  BY <1>4, <1>6, <1>8, <1>10, <1>11, <1>12

LEMMA BeginInv == IInv /\ (\E u \in Users : Begin(u)) => IInv'
<1> SUFFICES ASSUME IInv, NEW u \in Users, Begin(u) PROVE IInv'
  OBVIOUS
<1> USE DEF IInv
<1>1. /\ user = NoUser /\ user' = u /\ known' = Of(u)
      /\ UNCHANGED <<rows, limit, offset, seen, twice, done>>
  BY DEF Begin
<1>2. Of(u) \subseteq rows /\ Of(user)' = Of(u) /\ Of(NoUser) = {}
  BY <1>1, ListingAssumption DEF Of, TypeOK, Links
<1>3. seen = {} /\ twice = {}
  BY <1>1, <1>2 DEF OwnLinks, TypeOK
<1>4. offset = 0 /\ ~done
  BY <1>1 DEF Untouched
<1>5. TypeOK'
  BY <1>1, <1>2 DEF TypeOK
<1>6. Untouched' /\ OwnLinks'
  BY <1>1, <1>2, <1>3, ListingAssumption DEF Untouched, OwnLinks
<1>7. UnreadAhead'
  <2> SUFFICES ASSUME NEW l \in (known \ seen)'
               PROVE  Rank(l)' >= 0
    BY <1>1, <1>4 DEF UnreadAhead
  <2>1. Rank(l)' = Rank(l)
    BY <1>1 DEF Rank, Of
  <2> QED
    BY <2>1, RankType DEF TableOK, TypeOK
<1>8. ReadBehind' /\ WalkFindsAll' /\ RepeatsOnlyAfterInsert'
  BY <1>1, <1>3, <1>4 DEF ReadBehind, WalkFindsAll, RepeatsOnlyAfterInsert
<1> QED
  BY <1>5, <1>6, <1>7, <1>8

\* What a page leaves unread lies behind it, and what it shows lay at the offset
\* or after it.
LEMMA ReadPageInv == IInv /\ ReadPage => IInv'
<1> SUFFICES ASSUME IInv, ReadPage PROVE IInv'
  OBVIOUS
<1> USE DEF IInv
<1> DEFINE P == Page(user, limit, offset)
<1>1. /\ user # NoUser /\ ~done
      /\ twice' = twice \cup (seen \cap P)
      /\ seen' = seen \cup P
      /\ offset' = offset + Cardinality(P)
      /\ done' = (P = {})
      /\ UNCHANGED <<rows, user, limit, known>>
  BY DEF ReadPage
<1>2. TableOK /\ limit \in Int /\ offset \in Nat
  BY ListingAssumption DEF TableOK, TypeOK
<1>3. /\ P \subseteq Of(user)
      /\ \A l \in P : offset <= Rank(l) /\ Rank(l) < offset + Cardinality(P)
      /\ IsFiniteSet(P) /\ Cardinality(P) \in Nat /\ Cardinality(P) <= PageSize(limit)
      /\ \A l \in Of(user) \ P : Rank(l) < offset \/ offset + PageSize(limit) <= Rank(l)
  <2>1. \A l \in P : Rank(l) < offset + Cardinality(P)
    BY <1>2, PageIsContiguous
  <2> QED
    BY <1>2, <2>1, PageBounded
<1>4. P = {} => \A l \in Of(user) : Rank(l) < offset
  BY <1>2, EmptyPageIsLast
<1>5. /\ Of(user)' = Of(user)
      /\ \A l : Rank(l)' = Rank(l) /\ Rank(l) \in Nat
  BY <1>1, <1>2, RankType DEF Rank, Of
<1>6. PageSize(limit) \in Nat
  BY <1>2, PageSizeType
<1> HIDE DEF P
<1>7. TypeOK'
  <2>1. P \subseteq rows
    BY <1>3 DEF Of
  <2>2. IsFiniteSet(seen \cup P)
    BY <1>3, FS_Union DEF TypeOK
  <2> QED
    BY <1>1, <1>3, <2>1, <2>2 DEF TypeOK
<1>8. Untouched' /\ OwnLinks'
  BY <1>1, <1>3, <1>5 DEF Untouched, OwnLinks
<1>9. UnreadAhead'
  <2> SUFFICES ASSUME NEW l \in known \ (seen \cup P)
               PROVE  Rank(l) >= offset + Cardinality(P)
    BY <1>1, <1>5 DEF UnreadAhead
  <2>1. Rank(l) >= offset /\ l \in Of(user) \ P
    BY DEF UnreadAhead, OwnLinks
  <2>2. offset + PageSize(limit) <= Rank(l)
    BY <1>2, <1>3, <1>5, <2>1
  <2> QED
    BY <1>2, <1>3, <1>5, <1>6, <2>2
<1>10. ReadBehind'
  <2> SUFFICES ASSUME Of(user) = known, NEW l \in seen \cup P
               PROVE  Rank(l) < offset + Cardinality(P)
    BY <1>1, <1>5 DEF ReadBehind
  <2>1. CASE l \in P
    BY <1>3, <2>1
  <2>2. CASE l \in seen
    <3>1. Rank(l) < offset
      BY <1>1, <2>2 DEF ReadBehind
    <3> QED
      BY <1>2, <1>3, <1>5, <3>1
  <2> QED
    BY <2>1, <2>2
<1>11. WalkFindsAll'
  <2> SUFFICES ASSUME P = {}
               PROVE  known \subseteq seen
    BY <1>1, <1>8 DEF WalkFindsAll, OwnLinks
  <2> SUFFICES ASSUME NEW l \in known \ seen
               PROVE  FALSE
    OBVIOUS
  <2>1. l \in Of(user) /\ Rank(l) >= offset
    BY DEF UnreadAhead, OwnLinks
  <2> QED
    BY <1>2, <1>4, <1>5, <2>1
<1>12. RepeatsOnlyAfterInsert'
  <2> SUFFICES ASSUME Of(user) = known
               PROVE  twice \cup (seen \cap P) = {}
    BY <1>1, <1>5 DEF RepeatsOnlyAfterInsert
  <2>1. twice = {}
    BY DEF RepeatsOnlyAfterInsert
  <2>2. \A l \in seen : Rank(l) < offset
    BY <1>1 DEF ReadBehind
  <2> QED
    BY <1>2, <1>3, <1>5, <2>1, <2>2
<1> QED
  BY <1>7, <1>8, <1>9, <1>10, <1>11, <1>12

LEMMA StutterInv == IInv /\ UNCHANGED vars => IInv'
  BY DEF vars, IInv, TypeOK, Untouched, OwnLinks, UnreadAhead, ReadBehind,
         WalkFindsAll, RepeatsOnlyAfterInsert, Of, Rank, Newer

THEOREM InvHolds == Spec => []IInv
<1>1. IInv /\ [Next]_vars => IInv'
  BY InsertInv, BeginInv, ReadPageInv, StutterInv DEF Next
<1> QED
  BY InitInv, <1>1, PTL DEF Spec

\* Every variable keeps its type, and no row is ever lost.
THEOREM TypeCorrect == Spec => []TypeOK
<1>1. IInv => TypeOK
  BY DEF IInv
<1> QED
  BY InvHolds, <1>1, PTL

\* Paging by offset misses no link that was there at the start, for every size of
\* page and however many links are inserted, wherever, meanwhile.
THEOREM WalksFindAll == Spec => []WalkFindsAll
<1>1. IInv => WalkFindsAll
  BY DEF IInv
<1> QED
  BY InvHolds, <1>1, PTL

\* The pages of an unchanged list are disjoint.
THEOREM PagesDisjoint == Spec => []RepeatsOnlyAfterInsert
<1>1. IInv => RepeatsOnlyAfterInsert
  BY DEF IInv
<1> QED
  BY InvHolds, <1>1, PTL

=============================================================================
