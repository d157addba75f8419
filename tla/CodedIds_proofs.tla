-------------------------- MODULE CodedIds_proofs --------------------------
(***************************************************************************)
(* Proofs about short codes: the recursive definitions of ShortCode        *)
(* compute what they say, decoding a code gives its ID back, and the codes *)
(* of a fleet's IDs name them, for every base and every width of an ID.    *)
(*                                                                         *)
(* Induction is over sets of naturals: a set that is not empty has a least *)
(* element, since < is well-founded.                                       *)
(***************************************************************************)
EXTENDS CodedIds, Snowflake_proofs, WellFoundedInduction

\* A set of naturals that is not empty has a least element.
LEMMA LeastNat ==
  ASSUME NEW T \in SUBSET Nat, T # {}
  PROVE  \E x \in T : \A y \in T : x <= y
<1> DEFINE R == {ss \in Nat \X Nat : ss[1] < ss[2]}
<1>1. IsWellFoundedOn(R, Nat) BY NatLessThanWellFounded DEF OpToRel
<1>2. \E x \in T : \A y \in T : <<y, x>> \notin R
  <2> HIDE DEF R
  <2> QED BY <1>1, WFMin
<1>3. PICK x \in T : \A y \in T : <<y, x>> \notin R BY <1>2
<1>4. ASSUME NEW y \in T PROVE x <= y
  <2>1. x \in Nat /\ y \in Nat OBVIOUS
  <2>2. <<y, x>> \notin R BY <1>3
  <2>3. ~ (y < x) BY <2>1, <2>2
  <2>4. QED BY <2>1, <2>3
<1>5. QED BY <1>4

\* A set that holds a number whenever it holds all smaller ones holds them all.
LEMMA Induction ==
  ASSUME NEW S, \A n \in Nat : (\A m \in 0 .. n - 1 : m \in S) => n \in S
  PROVE  \A n \in Nat : n \in S
<1> DEFINE T == {n \in Nat : n \notin S}
<1>1. SUFFICES ASSUME T # {} PROVE FALSE OBVIOUS
<1>2. PICK n \in T : \A m \in T : n <= m BY <1>1, LeastNat
<1>3. \A m \in 0 .. n - 1 : m \in S
  <2> TAKE m \in 0 .. n - 1
  <2>1. m \in Nat /\ ~(n <= m) OBVIOUS
  <2>2. QED BY <1>2, <2>1
<1>4. QED BY <1>3

-----------------------------------------------------------------------------
(***************************************************************************)
(* Digits.                                                                 *)
(***************************************************************************)
Digits == 0 .. base - 1

\* Taking the lowest digit off a number leaves a smaller one.
LEMMA DivisionByBase ==
  ASSUME NEW id \in Nat
  PROVE  /\ id \div base \in Nat /\ id % base \in Digits
         /\ id = (id \div base) * base + (id % base)
         /\ id > 0 => id \div base < id
<1>1. base \in Nat /\ base > 1 /\ base \in Nat \ {0} BY ShortCodeAssumption
<1>2. PICK q \in Nat, d \in 0 .. base - 1 : id = q * base + d
  <2> DEFINE S == {k \in Nat : \E q \in Nat, d \in 0 .. base - 1 : k = q * base + d}
  <2>1. ASSUME NEW k \in Nat, \A m \in 0 .. k - 1 : m \in S PROVE k \in S
    <3>1. CASE k < base
      <4>1. k = 0 * base + k /\ k \in 0 .. base - 1 BY <1>1, <3>1
      <4>2. QED BY <4>1
    <3>2. CASE ~(k < base)
      <4>1. k - base \in 0 .. k - 1 BY <1>1, <3>2
      <4>2. PICK q \in Nat, d \in 0 .. base - 1 : k - base = q * base + d BY <2>1, <4>1
      <4>3. (q + 1) * base = q * base + base /\ q * base \in Int BY <1>1
      <4>4. k = (q + 1) * base + d BY <1>1, <4>2, <4>3
      <4>5. q + 1 \in Nat OBVIOUS
      <4>6. QED BY <4>4, <4>5
    <3>3. QED BY <3>1, <3>2
  <2> HIDE DEF S
  <2>2. id \in S BY <2>1, Induction
  <2>3. QED BY <2>2 DEF S
<1>3. id \div base = q /\ id % base = d BY <1>1, <1>2, Quotient
<1>4. ASSUME id > 0 PROVE q < id
  <2>1. CASE q = 0 BY <1>4, <2>1
  <2>2. CASE q > 0
    <3>1. 2 * q <= base * q BY <1>1, ProductMonotone
    <3>2. base * q = q * base /\ q * base \in Int BY <1>1
    <3>3. QED BY <1>2, <2>2, <3>1, <3>2
  <2>3. QED BY <2>1, <2>2
<1>5. id \div base \in Nat /\ id % base \in 0 .. base - 1 BY <1>3, Zenon
<1>6. (id \div base) * base + (id % base) = q * base + d BY <1>3, Zenon
<1>7. id > 0 => id \div base < id BY <1>3, <1>4, Zenon
<1>8. QED BY <1>2, <1>5, <1>6, <1>7, Zenon DEF Digits

\* One step of the loop of Encode, with f for what is left.
Lowest(f, id) == IF id > 0 THEN <<id % base>> \o f[id \div base] ELSE <<>>

\* f is what the definition of LowFirst asks for, up to n.
Settled(f, n) == \A id \in Int : id <= n => f[id] = Lowest(f, id)

\* The two cases of the definition.
LEMMA SettledAt ==
  ASSUME NEW f, NEW n, Settled(f, n), NEW id \in Int, id <= n
  PROVE  /\ id > 0 => f[id] = <<id % base>> \o f[id \div base]
         /\ id <= 0 => f[id] = <<>>
<1>1. f[id] = Lowest(f, id) BY DEF Settled
<1>2. QED BY <1>1 DEF Lowest

\* Such a function exists for every n, by induction ...
LEMMA SettledExists ==
  ASSUME NEW n \in Nat
  PROVE  \E f \in [Int -> Seq(Digits)] : Settled(f, n)
<1> DEFINE S == {k \in Nat : \E f \in [Int -> Seq(Digits)] : Settled(f, k)}
<1>1. ASSUME NEW k \in Nat, \A m \in 0 .. k - 1 : m \in S PROVE k \in S
  <2>1. CASE k = 0
    <3> DEFINE f == [id \in Int |-> <<>>]
    <3>1. f \in [Int -> Seq(Digits)] OBVIOUS
    <3>2. Settled(f, 0) BY DEF Settled, Lowest
    <3>3. QED BY <2>1, <3>1, <3>2
  <2>2. CASE k > 0
    <3>1. PICK g \in [Int -> Seq(Digits)] : Settled(g, k - 1)
      <4>1. k - 1 \in 0 .. k - 1 BY <2>2
      <4>2. QED BY <1>1, <4>1
    <3> DEFINE f == [g EXCEPT ![k] = Lowest(g, k)]
    <3>2. k \div base \in Int /\ k \div base < k /\ k % base \in Digits BY <2>2, DivisionByBase
    <3>3. Lowest(g, k) \in Seq(Digits) BY <2>2, <3>2 DEF Lowest
    <3>4. f \in [Int -> Seq(Digits)] BY <3>3
    <3>5. ASSUME NEW id \in Int, id <= k PROVE f[id] = Lowest(f, id)
      <4>1. CASE id = k
        <5>1. f[k] = Lowest(g, k) OBVIOUS
        <5>2. f[k \div base] = g[k \div base] BY <3>2
        <5>3. QED BY <4>1, <5>1, <5>2 DEF Lowest
      <4>2. CASE id < k
        <5>1. f[id] = g[id] /\ g[id] = Lowest(g, id) BY <3>1, <4>2 DEF Settled
        <5>2. ASSUME id > 0 PROVE f[id \div base] = g[id \div base]
          <6>1. id \div base \in Int /\ id \div base < id BY <5>2, DivisionByBase
          <6>2. id \div base # k BY <4>2, <6>1
          <6>3. QED BY <6>1, <6>2
        <5>3. QED BY <5>1, <5>2 DEF Lowest
      <4>3. QED BY <3>5, <4>1, <4>2
    <3>6. QED BY <3>4, <3>5 DEF Settled
  <2>3. QED BY <2>1, <2>2
<1> HIDE DEF S
<1>2. n \in S BY <1>1, Induction
<1>3. QED BY <1>2 DEF S

\* ... and all of them agree where they are settled.
LEMMA SettledUnique ==
  ASSUME NEW f, NEW g, NEW n \in Int, NEW m \in Int, Settled(f, n), Settled(g, m),
         NEW id \in Int, id <= n, id <= m
  PROVE  f[id] = g[id]
<1> DEFINE S == {k \in Nat : k <= n /\ k <= m => f[k] = g[k]}
<1>1. \A k \in Int : k <= 0 /\ k <= n /\ k <= m => f[k] = g[k] BY SettledAt
<1>2. ASSUME NEW k \in Nat, \A j \in 0 .. k - 1 : j \in S PROVE k \in S
  <2>1. CASE k = 0 BY <1>1, <2>1
  <2>2. CASE k > 0 /\ k <= n /\ k <= m
    <3>1. k \div base \in 0 .. k - 1 /\ k \div base <= n /\ k \div base <= m
      BY <2>2, DivisionByBase
    <3>2. f[k \div base] = g[k \div base] BY <1>2, <3>1
    <3>3. f[k] = Lowest(f, k) /\ g[k] = Lowest(g, k) BY <2>2 DEF Settled
    <3>4. QED BY <3>2, <3>3 DEF Lowest
  <2>3. QED BY <2>1, <2>2
<1> HIDE DEF S
<1>3. \A k \in Nat : k \in S BY <1>2, Induction
<1>4. CASE id <= 0 BY <1>1, <1>4
<1>5. CASE id > 0 BY <1>3, <1>5 DEF S
<1>6. QED BY <1>4, <1>5

\* LowFirst is the function its definition describes (base62.go: Encode).
LEMMA LowFirstDef ==
  /\ LowFirst \in [Int -> Seq(Digits)]
  /\ \A id \in Int : LowFirst[id] = Lowest(LowFirst, id)
<1> DEFINE G(n) == CHOOSE f \in [Int -> Seq(Digits)] : Settled(f, n)
           F == [id \in Int |-> IF id > 0 THEN G(id)[id] ELSE <<>>]
           Solves(f) == f = [id \in Int |-> IF id > 0 THEN <<id % base>> \o f[id \div base] ELSE <<>>]
<1>1. \A n \in Nat : G(n) \in [Int -> Seq(Digits)] /\ Settled(G(n), n) BY SettledExists
<1> HIDE DEF G
<1>2. F \in [Int -> Seq(Digits)] BY <1>1
<1>3. ASSUME NEW id \in Int, id > 0 PROVE F[id] = <<id % base>> \o F[id \div base]
  <2> DEFINE q == id \div base
  <2>1. q \in Nat /\ q < id BY <1>3, DivisionByBase
  <2>2. PICK g : g = G(id) /\ Settled(g, id) BY <1>1, <1>3
  <2>r. id \in Int /\ id <= id BY <1>3
  <2>3. F[id] = <<id % base>> \o g[q]
    <3>1. F[id] = g[id] BY <1>3, <2>2
    <3>2. g[id] = <<id % base>> \o g[id \div base] BY <1>3, <2>2, <2>r, SettledAt, Zenon
    <3>3. QED BY <3>1, <3>2
  <2> HIDE DEF q
  <2>4. CASE q = 0
    <3>1. g[0] = <<>>
      <4>1. 0 \in Int /\ 0 <= id /\ 0 <= 0 BY <1>3
      <4>2. QED BY <2>2, <4>1, SettledAt, Zenon
    <3>2. F[q] = <<>> BY <2>4
    <3>3. QED BY <2>3, <2>4, <3>1, <3>2 DEF q
  <2>5. CASE q > 0
    <3>1. PICK h : h = G(q) /\ Settled(h, q) BY <1>1, <2>1
    <3>2. g[q] = h[q] BY <2>1, <2>2, <3>1, SettledUnique
    <3>3. F[q] = h[q] BY <2>1, <2>5, <3>1
    <3>4. QED BY <2>3, <3>2, <3>3 DEF q
  <2>6. QED BY <2>1, <2>4, <2>5
<1>4. Solves(F) BY <1>3
<1>5. LowFirst = CHOOSE f : Solves(f) BY DEF LowFirst
<1>6. Solves(LowFirst)
  <2> HIDE DEF Solves, F
  <2> QED BY <1>4, <1>5
<1>7. \A id \in Int : LowFirst[id] = Lowest(LowFirst, id) BY <1>6 DEF Lowest
<1>8. LowFirst = [id \in Int |-> LowFirst[id]] BY <1>6
<1>9. \A id \in Int : LowFirst[id] \in Seq(Digits)
  <2>1. \A n \in Int : Settled(LowFirst, n) BY <1>7 DEF Settled
  <2>2. ASSUME NEW id \in Int PROVE LowFirst[id] \in Seq(Digits)
    <3>1. CASE id > 0
      <4>1. PICK g : g = G(id) /\ g \in [Int -> Seq(Digits)] /\ Settled(g, id) BY <1>1, <3>1
      <4>2. id \in Int /\ id <= id /\ Settled(LowFirst, id) BY <2>1
      <4>3. LowFirst[id] = g[id] BY <4>1, <4>2, SettledUnique, Zenon
      <4>4. QED BY <4>1, <4>3
    <3>2. CASE ~(id > 0)
      <4>1. LowFirst[id] = <<>> BY <1>7, <3>2, Zenon DEF Lowest
      <4>2. QED BY <4>1
    <3>3. QED BY <3>1, <3>2
  <2>3. QED BY <2>2
<1>10. QED BY <1>7, <1>8, <1>9

-----------------------------------------------------------------------------
(***************************************************************************)
(* Codes.                                                                  *)
(***************************************************************************)
LEMMA ReverseAppends ==
  ASSUME NEW D, NEW s \in Seq(D), NEW d \in D
  PROVE  Reverse(<<d>> \o s) = Append(Reverse(s), d) /\ Reverse(s) \in Seq(D)
<1> DEFINE t == <<d>> \o s
<1>1. /\ t \in Seq(D) /\ Len(t) = Len(s) + 1 /\ t[1] = d /\ Len(s) \in Nat
      /\ \A k \in 1 .. Len(s) : t[k + 1] = s[k] /\ s[k] \in D
  OBVIOUS
<1> HIDE DEF t
<1>2. Reverse(s) = [k \in 1 .. Len(s) |-> s[(Len(s) - k) + 1]] BY DEF Reverse
<1>3. \A k \in 1 .. Len(s) : (Len(s) - k) + 1 \in 1 .. Len(s) BY <1>1
<1>4. Reverse(s) \in Seq(D) /\ Len(Reverse(s)) = Len(s) BY <1>1, <1>2, <1>3
<1>5. Reverse(t) = [k \in 1 .. Len(s) + 1 |-> t[((Len(s) + 1) - k) + 1]] BY <1>1 DEF Reverse
<1>6. ASSUME NEW k \in 1 .. Len(s) + 1 PROVE Reverse(t)[k] = Append(Reverse(s), d)[k]
  <2>1. CASE k = Len(s) + 1
    <3>1. ((Len(s) + 1) - k) + 1 = 1 BY <1>1, <2>1
    <3>2. Reverse(t)[k] = d BY <1>1, <1>5, <3>1
    <3>3. QED BY <1>4, <2>1, <3>2
  <2>2. CASE k \in 1 .. Len(s)
    <3> DEFINE j == (Len(s) - k) + 1
    <3>1. j \in 1 .. Len(s) /\ ((Len(s) + 1) - k) + 1 = j + 1 BY <1>1, <2>2
    <3>2. Reverse(s)[k] = s[j] BY <1>2, <2>2
    <3> HIDE DEF j
    <3>3. Reverse(t)[k] = t[j + 1] BY <1>5, <3>1
    <3>4. QED BY <1>1, <1>4, <2>2, <3>1, <3>2, <3>3
  <2>3. k = Len(s) + 1 \/ k \in 1 .. Len(s) BY <1>1
  <2>4. QED BY <2>1, <2>2, <2>3, Zenon
<1>7. Append(Reverse(s), d) \in Seq(D) /\ Len(Append(Reverse(s), d)) = Len(s) + 1
  BY <1>4
<1>8. Append(Reverse(s), d) = [k \in 1 .. Len(s) + 1 |-> Append(Reverse(s), d)[k]]
  <2>1. \A u \in Seq(D) : u = [k \in 1 .. Len(u) |-> u[k]] OBVIOUS
  <2>2. QED BY <1>7, <2>1
<1>9. Reverse(t) = Append(Reverse(s), d) BY <1>5, <1>6, <1>8
<1>10. QED BY <1>4, <1>9 DEF t

\* The code of an ID is the code of all its digits but the lowest, and that one
\* (base62.go: Encode).
LEMMA EncodeDef ==
  ASSUME NEW id \in Nat
  PROVE  /\ Encode(id) \in Seq(Digits)
         /\ id < base => Encode(id) = <<id>>
         /\ id >= base => Encode(id) = Append(Encode(id \div base), id % base)
<1>1. base \in Nat /\ base > 1 BY ShortCodeAssumption
<1> DEFINE q == id \div base
           d == id % base
<1>2. /\ q \in Nat /\ d \in Digits /\ id = q * base + d
      /\ id > 0 => q < id
  BY DivisionByBase
<1>3. ASSUME id > 0
      PROVE  Encode(id) = Append(Reverse(LowFirst[q]), d) /\ Reverse(LowFirst[q]) \in Seq(Digits)
  <2>1. LowFirst[id] = <<d>> \o LowFirst[q] /\ LowFirst[q] \in Seq(Digits)
    BY <1>2, <1>3, LowFirstDef DEF Lowest
  <2>2. Encode(id) = Reverse(LowFirst[id]) BY <1>3 DEF Encode
  <2> HIDE DEF q, d
  <2>3. QED BY <1>2, <2>1, <2>2, ReverseAppends
<1> HIDE DEF q, d
<1>4. q = 0 => Reverse(LowFirst[q]) = <<>>
  <2>1. LowFirst[0] = <<>>
    <3>1. LowFirst[0] = Lowest(LowFirst, 0) BY LowFirstDef
    <3>2. QED BY <3>1 DEF Lowest
  <2>2. Reverse(<<>>) = <<>> BY DEF Reverse
  <2>3. QED BY <2>1, <2>2
<1>5. CASE id = 0
  <2>1. Encode(id) = <<0>> /\ 0 \in Digits BY <1>1, <1>5 DEF Encode, Digits
  <2>2. <<0>> \in Seq(Digits) BY <2>1
  <2>3. ~(id >= base) BY <1>1, <1>5
  <2>4. QED BY <1>5, <2>1, <2>2, <2>3, Zenon
<1>6. CASE id > 0 /\ id < base
  <2>1. q = 0
    <3>1. SUFFICES ASSUME q >= 1 PROVE FALSE BY <1>2
    <3>2. 1 * base <= q * base BY <1>1, <1>2, <3>1, ProductMonotone
    <3>3. q * base \in Int /\ d \in Int /\ d >= 0 BY <1>1, <1>2 DEF Digits
    <3>4. QED BY <1>1, <1>2, <1>6, <3>2, <3>3
  <2>2. d = id
    <3>1. 0 * base = 0 BY <1>1
    <3>2. d \in Int BY <1>1, <1>2 DEF Digits
    <3>3. QED BY <1>2, <2>1, <3>1, <3>2
  <2>3. Encode(id) = Append(<<>>, id) BY <1>3, <1>4, <1>6, <2>1, <2>2
  <2>4. id \in Digits BY <1>2, <2>2
  <2>5. Append(<<>>, id) = <<id>> /\ <<id>> \in Seq(Digits) BY <2>4
  <2>6. ~(id >= base) BY <1>1, <1>6
  <2>7. QED BY <2>3, <2>5, <2>6, Zenon
<1>7. CASE id >= base
  <2>1. id > 0 BY <1>1, <1>7
  <2>2. q > 0
    <3>1. SUFFICES ASSUME q = 0 PROVE FALSE BY <1>2
    <3>2. 0 * base = 0 BY <1>1
    <3>3. d \in Int /\ d < base BY <1>1, <1>2 DEF Digits
    <3>4. QED BY <1>1, <1>2, <1>7, <3>1, <3>2, <3>3
  <2>3. Encode(q) = Reverse(LowFirst[q]) BY <2>2 DEF Encode
  <2>4. Encode(id) = Append(Encode(q), d) /\ Encode(q) \in Seq(Digits) BY <1>3, <2>1, <2>3
  <2>5. Encode(id) \in Seq(Digits) BY <1>2, <2>4
  <2>6. ~(id < base) BY <1>1, <1>7
  <2>7. QED BY <2>4, <2>5, <2>6 DEF q, d
<1>8. QED BY <1>1, <1>5, <1>6, <1>7

\* The loop of Decode, as far as character k.
Runs(n, s) == /\ n \in [0 .. Len(s) -> Int]
              /\ n[0] = 0
              /\ \A k \in 1 .. Len(s) : n[k] = Int64(n[k - 1] * base + s[k])

\* A number that wraps around is a number.
LEMMA Int64Type == ASSUME NEW x \in Int PROVE Int64(x) \in Int
<1> DEFINE half == TimeCap * MsUnit
<1>1. half \in Int /\ half > 0 BY MsUnitType, LayoutAssumption
<1>2. Int64(x) = ((x + half) % (2 * half)) - half BY DEF Int64
<1> HIDE DEF half
<1>3. \A a, b \in Int : b > 0 => a % b \in Int OBVIOUS
<1>4. 2 * half \in Int /\ 2 * half > 0 /\ x + half \in Int BY <1>1
<1>5. (x + half) % (2 * half) \in Int BY <1>3, <1>4
<1>6. QED BY <1>1, <1>2, <1>5

\* Number is what the loop of Decode ends with (base62.go: Decode).
LEMMA NumberDef ==
  ASSUME NEW s \in Seq(Digits)
  PROVE  \E n : Runs(n, s) /\ Number(s) = n[Len(s)]
<1> DEFINE After(v, k) == Int64(v * base + s[k])
           Starts(n, k) == /\ n \in [0 .. k -> Int] /\ n[0] = 0
                           /\ \A j \in 1 .. k : n[j] = After(n[j - 1], j)
           S == {k \in Nat : k <= Len(s) => \E n : Starts(n, k)}
           Solves(n) == n = [k \in 0 .. Len(s) |-> IF k = 0 THEN 0 ELSE Int64(n[k - 1] * base + s[k])]
<1>0. base \in Nat /\ Len(s) \in Nat BY ShortCodeAssumption
<1>1. \A v \in Int, k \in 1 .. Len(s) : After(v, k) \in Int
  <2> TAKE v \in Int, k \in 1 .. Len(s)
  <2>1. s[k] \in Int BY <1>0 DEF Digits
  <2>2. v * base + s[k] \in Int BY <1>0, <2>1
  <2>3. QED BY <2>2, Int64Type
<1> HIDE DEF After
<1>2. ASSUME NEW k \in Nat, \A m \in 0 .. k - 1 : m \in S PROVE k \in S
  <2>1. CASE k = 0
    <3> DEFINE n == [j \in 0 .. 0 |-> 0]
    <3>1. Starts(n, 0) OBVIOUS
    <3>2. QED BY <2>1, <3>1
  <2>2. CASE k > 0 /\ k <= Len(s)
    <3>1. k - 1 \in 0 .. k - 1 /\ k - 1 <= Len(s) BY <1>0, <2>2
    <3>2. PICK n : Starts(n, k - 1) BY <1>2, <3>1
    <3> DEFINE o == [j \in 0 .. k |-> IF j = k THEN After(n[k - 1], k) ELSE n[j]]
    <3>3. n[k - 1] \in Int /\ k \in 1 .. Len(s) BY <1>0, <2>2, <3>1, <3>2
    <3>4. After(n[k - 1], k) \in Int BY <1>1, <3>3
    <3>5. o \in [0 .. k -> Int] BY <2>2, <3>2, <3>4
    <3>6. o[0] = 0 BY <2>2, <3>2
    <3>7. ASSUME NEW j \in 1 .. k PROVE o[j] = After(o[j - 1], j)
      <4>1. o[j - 1] = n[j - 1] BY <2>2
      <4>2. CASE j = k BY <4>1, <4>2
      <4>3. CASE j \in 1 .. k - 1
        <5>1. o[j] = n[j] BY <2>2, <4>3
        <5>2. n[j] = After(n[j - 1], j) BY <3>2, <4>3
        <5>3. QED BY <4>1, <5>1, <5>2
      <4>4. QED BY <2>2, <4>2, <4>3
    <3>8. Starts(o, k) BY <3>5, <3>6, <3>7
    <3>9. QED BY <3>8
  <2>3. QED BY <2>1, <2>2
<1>3. PICK n : Starts(n, Len(s))
  <2>1. Len(s) \in S
    <3> HIDE DEF S
    <3> QED BY <1>0, <1>2, Induction
  <2>2. QED BY <1>0, <2>1
<1>4. Solves(n)
  <2>1. \A k \in 0 .. Len(s) : n[k] = IF k = 0 THEN 0 ELSE Int64(n[k - 1] * base + s[k])
    BY <1>0, <1>3 DEF After
  <2>2. QED BY <1>3, <2>1
<1> DEFINE c == CHOOSE f : Solves(f)
<1>5. Number(s) = c[Len(s)] BY DEF Number
<1>6. Solves(c)
  <2> HIDE DEF Solves
  <2> QED BY <1>4
<1> HIDE DEF c
<1>7. c = n
  <2> DEFINE E == {k \in Nat : k <= Len(s) => c[k] = n[k]}
  <2>1. ASSUME NEW k \in Nat, \A m \in 0 .. k - 1 : m \in E PROVE k \in E
    <3>1. CASE k = 0 BY <1>0, <1>4, <1>6, <3>1
    <3>2. CASE k > 0 /\ k <= Len(s)
      <4>1. k - 1 \in 0 .. k - 1 /\ k - 1 <= Len(s) /\ k \in 0 .. Len(s) BY <1>0, <3>2
      <4>2. c[k - 1] = n[k - 1] BY <2>1, <4>1
      <4>3. c[k] = Int64(c[k - 1] * base + s[k]) BY <1>6, <3>2, <4>1
      <4>4. n[k] = Int64(n[k - 1] * base + s[k]) BY <1>4, <3>2, <4>1
      <4>5. QED BY <4>2, <4>3, <4>4
    <3>3. QED BY <3>1, <3>2
  <2> HIDE DEF E
  <2>2. \A k \in Nat : k \in E BY <2>1, Induction
  <2>3. \A k \in 0 .. Len(s) : c[k] = n[k] BY <1>0, <2>2 DEF E
  <2>4. n = [k \in 0 .. Len(s) |-> n[k]] BY <1>4
  <2>5. c = [k \in 0 .. Len(s) |-> c[k]] BY <1>6
  <2>6. QED BY <2>3, <2>4, <2>5
<1>8. Runs(n, s) BY <1>3 DEF Runs, After
<1>9. QED BY <1>5, <1>7, <1>8

\* Each character shifts the number and adds its digit (base62.go: Decode).
LEMMA NumberAppend ==
  ASSUME NEW s \in Seq(Digits), NEW d \in Digits
  PROVE  Number(Append(s, d)) = Int64(Number(s) * base + d) /\ Number(s) \in Int
<1> DEFINE t == Append(s, d)
<1>1. /\ t \in Seq(Digits) /\ Len(t) = Len(s) + 1 /\ Len(s) \in Nat
      /\ t[Len(t)] = d /\ \A k \in 1 .. Len(s) : t[k] = s[k]
  OBVIOUS
<1> HIDE DEF t
<1>2. PICK n : Runs(n, s) /\ Number(s) = n[Len(s)] BY NumberDef
<1>3. PICK o : Runs(o, t) /\ Number(t) = o[Len(t)] BY <1>1, NumberDef
<1>4. \A k \in Nat : k <= Len(s) => n[k] = o[k]
  <2> DEFINE S == {k \in Nat : k <= Len(s) => n[k] = o[k]}
  <2>1. ASSUME NEW k \in Nat, \A m \in 0 .. k - 1 : m \in S PROVE k \in S
    <3>1. CASE k = 0 BY <1>2, <1>3, <3>1 DEF Runs
    <3>2. CASE k > 0 /\ k <= Len(s)
      <4>1. k - 1 \in 0 .. k - 1 /\ k - 1 <= Len(s) /\ k \in 1 .. Len(s) /\ k \in 1 .. Len(t)
        BY <1>1, <3>2
      <4>2. n[k - 1] = o[k - 1] BY <2>1, <4>1
      <4>3. n[k] = Int64(n[k - 1] * base + s[k]) BY <1>2, <4>1 DEF Runs
      <4>4. o[k] = Int64(o[k - 1] * base + t[k]) BY <1>3, <4>1 DEF Runs
      <4>5. QED BY <1>1, <4>1, <4>2, <4>3, <4>4
    <3>3. QED BY <3>1, <3>2
  <2> HIDE DEF S
  <2>2. \A k \in Nat : k \in S BY <2>1, Induction
  <2>3. QED BY <2>2 DEF S
<1>5. o[Len(t)] = Int64(o[Len(t) - 1] * base + d)
  <2>1. Len(t) \in 1 .. Len(t) BY <1>1
  <2>2. o[Len(t)] = Int64(o[Len(t) - 1] * base + t[Len(t)]) BY <1>3, <2>1 DEF Runs
  <2>3. QED BY <1>1, <2>2
<1>6. o[Len(t) - 1] = Number(s)
  <2>1. Len(t) - 1 = Len(s) /\ Len(s) <= Len(s) BY <1>1
  <2>2. QED BY <1>1, <1>2, <1>4, <2>1
<1>7. Number(s) \in Int BY <1>1, <1>2 DEF Runs
<1>8. QED BY <1>3, <1>5, <1>6, <1>7 DEF t

-----------------------------------------------------------------------------
\* The IDs with a sign bit of zero.
NaturalIds == 0 .. TimeCap * MsUnit - 1

\* They are the naturals that fit.
LEMMA NaturalId == ASSUME NEW id \in NaturalIds PROVE id \in Nat /\ id < TimeCap * MsUnit
<1>1. TimeCap * MsUnit \in Int BY LayoutAssumption, MsUnitType
<1>2. QED BY <1>1 DEF NaturalIds

\* Decode gives back every ID that Encode was given, and takes its code for valid;
\* so two IDs never share a code (base62.go: Encode, Decode).
THEOREM DecodeInvertsEncode ==
  ASSUME NEW id \in NaturalIds
  PROVE  Decode(Encode(id)) = [n |-> id, ok |-> TRUE]
<1>0. base \in Nat /\ base > 1 BY ShortCodeAssumption
<1>1. id \in Nat /\ id < TimeCap * MsUnit BY NaturalId
<1>2. Number(Encode(id)) = id
  <2> DEFINE S == {k \in Nat : k < TimeCap * MsUnit => Number(Encode(k)) = k}
  <2>1. ASSUME NEW k \in Nat, \A m \in 0 .. k - 1 : m \in S PROVE k \in S
    <3>1. SUFFICES ASSUME k < TimeCap * MsUnit PROVE Number(Encode(k)) = k OBVIOUS
    <3>2. Int64(k) = k BY <3>1, Int64Small
    <3>3. CASE k < base
      <4>1. k \in Digits /\ <<>> \in Seq(Digits) BY <1>0, <3>3 DEF Digits
      <4>2. Encode(k) = Append(<<>>, k) BY <3>3, EncodeDef
      <4>3. PICK n : Runs(n, <<>>) /\ Number(<<>>) = n[Len(<<>>)] BY <4>1, NumberDef
      <4>4. Number(<<>>) = 0 BY <4>3 DEF Runs
      <4>5. Number(Encode(k)) = Int64(0 * base + k) BY <4>1, <4>2, <4>4, NumberAppend
      <4>6. 0 * base + k = k BY <1>0
      <4>7. QED BY <3>2, <4>5, <4>6
    <3>4. CASE k >= base
      <4> DEFINE q == k \div base
                 d == k % base
      <4>1. q \in Nat /\ d \in Digits /\ k = q * base + d /\ q < k
        BY <1>0, <3>4, DivisionByBase
      <4>2. Encode(k) = Append(Encode(q), d) BY <3>4, EncodeDef
      <4> HIDE DEF q, d
      <4>3. Encode(q) \in Seq(Digits) BY <4>1, EncodeDef
      <4>4. Number(Encode(q)) = q
        <5>1. TimeCap * MsUnit \in Int BY LayoutAssumption, MsUnitType
        <5>2. q \in 0 .. k - 1 /\ q < TimeCap * MsUnit BY <3>1, <4>1, <5>1
        <5>3. QED BY <2>1, <5>2
      <4>5. Number(Encode(k)) = Int64(q * base + d) BY <4>1, <4>2, <4>3, <4>4, NumberAppend
      <4>6. QED BY <3>2, <4>1, <4>5
    <3>5. QED BY <1>0, <3>3, <3>4
  <2> HIDE DEF S
  <2>2. id \in S BY <1>1, <2>1, Induction
  <2>3. QED BY <1>1, <2>2 DEF S
<1>3. Encode(id) # <<>>
  <2>1. CASE id < base
    <3>1. Encode(id) = <<id>> BY <1>1, <2>1, EncodeDef
    <3>2. QED BY <3>1
  <2>2. CASE id >= base
    <3>1. Encode(id \div base) \in Seq(Digits) /\ id % base \in Digits
      BY <1>1, DivisionByBase, EncodeDef
    <3>2. Encode(id) = Append(Encode(id \div base), id % base) BY <1>1, <2>2, EncodeDef
    <3>3. QED BY <3>1, <3>2
  <2>3. QED BY <1>0, <1>1, <2>1, <2>2
<1>4. ~ \E k \in DOMAIN Encode(id) : Encode(id)[k] >= base
  <2>1. Encode(id) \in Seq(Digits) BY <1>1, EncodeDef
  <2>2. \A k \in DOMAIN Encode(id) : Encode(id)[k] \in Digits BY <2>1
  <2>3. \A x \in Digits : ~(x >= base) BY <1>0 DEF Digits
  <2>4. QED BY <2>2, <2>3
<1>5. QED BY <1>2, <1>3, <1>4 DEF Decode

\* One more digit makes codes for base times as many IDs.
LEMMA LongerCodes ==
  ASSUME NEW m \in Nat, NEW k \in Nat,
         \A q \in Nat : q < m => Len(Encode(q)) <= k,
         NEW id \in Nat, id < m * base, k >= 1
  PROVE  Len(Encode(id)) <= k + 1
<1>0. base \in Nat /\ base > 1 BY ShortCodeAssumption
<1>1. CASE id < base
  <2>1. Encode(id) = <<id>> BY <1>1, EncodeDef
  <2>2. QED BY <2>1
<1>2. CASE id >= base
  <2> DEFINE q == id \div base
             d == id % base
  <2>1. q \in Nat /\ d \in Digits /\ id = q * base + d BY DivisionByBase
  <2>2. Encode(id) = Append(Encode(q), d) BY <1>2, EncodeDef
  <2> HIDE DEF q, d
  <2>3. q < m
    <3>1. SUFFICES ASSUME m <= q PROVE FALSE BY <2>1
    <3>2. m * base <= q * base BY <1>0, <2>1, <3>1, ProductMonotone
    <3>3. m * base \in Int /\ q * base \in Int /\ d \in Int /\ d >= 0
      BY <1>0, <2>1 DEF Digits
    <3>4. QED BY <2>1, <3>2, <3>3
  <2>4. Encode(q) \in Seq(Digits) /\ Len(Encode(q)) <= k BY <2>1, <2>3, EncodeDef
  <2>5. QED BY <2>1, <2>2, <2>4
<1>3. QED BY <1>0, <1>1, <1>2

\* A code has at most eleven characters (base62.go: the package comment).
THEOREM CodesAreShort ==
  ASSUME base = 62, NEW id \in Nat, id <= 9223372036854775807
  PROVE  Len(Encode(id)) <= 11
<1> DEFINE Short(m, k) == \A q \in Nat : q < m => Len(Encode(q)) <= k
<1>1. Short(62, 1)
  <2>1. ASSUME NEW q \in Nat, q < 62 PROVE Len(Encode(q)) <= 1
    <3>1. Encode(q) = <<q>> BY <2>1, EncodeDef
    <3>2. QED BY <3>1
  <2>2. QED BY <2>1
<1>2. ASSUME NEW m \in Nat, NEW k \in Nat, k >= 1, Short(m, k)
      PROVE  Short(m * 62, k + 1)
  BY <1>2, LongerCodes
<1> HIDE DEF Short
<1>3. Short(3844, 2) BY <1>1, <1>2
<1>4. Short(238328, 3) BY <1>2, <1>3
<1>5. Short(14776336, 4) BY <1>2, <1>4
<1>6. Short(916132832, 5) BY <1>2, <1>5
<1>7. Short(56800235584, 6) BY <1>2, <1>6
<1>8. Short(3521614606208, 7) BY <1>2, <1>7
<1>9. Short(218340105584896, 8) BY <1>2, <1>8
<1>10. Short(13537086546263552, 9) BY <1>2, <1>9
<1>11. Short(839299365868340224, 10) BY <1>2, <1>10
<1>12. Short(52036560683837093888, 11) BY <1>2, <1>11
<1>13. QED BY <1>12 DEF Short

\* As long as the clocks stay in the time field, WORKER_IDs differ and no restart
\* hides behind a clock that steps back, every ID has a code that names it
\* (service.go: Create; base62.go: Encode).
THEOREM IssuedCodesNameIds ==
  ASSUME ClocksInField, RestartsSafe, WorkersDiffer
  PROVE  Spec => []CodesNameIds
<1>1. ASSUME IInv, IdsUnique PROVE CodesNameIds
  <2>1. ASSUME NEW i \in Instances, NEW k \in DOMAIN issued[i] PROVE issued[i][k] \in NaturalIds
    <3>1. k \in 1 .. Len(issued[i]) BY <1>1, <2>1 DEF IInv, TypeOK
    <3>2. PICK ms \in ClockValues, s \in SequenceNumbers : issued[i][k] = MakeId(ms, WorkerOf[i], s)
      BY <1>1, <3>1 DEF IInv, IdsMade
    <3>3. ms \in FieldTimes /\ WorkerOf[i] \in WorkerIds BY ClockTime, SnowflakeAssumption
    <3> DEFINE l == WorkerOf[i] * SequenceCap + s
    <3>4. /\ issued[i][k] = Shift(ms) + l /\ Shift(ms) \in Nat /\ l \in 0 .. MsUnit - 1
      BY <3>2, <3>3, MakeIdValue
    <3> HIDE DEF l
    <3>5. Shift(ms) + MsUnit <= Shift(Epoch + TimeCap) /\ Shift(Epoch + TimeCap) \in Int
      <4>1. ms \in Int /\ Epoch + TimeCap \in Int /\ ms < Epoch + TimeCap
        BY <3>3, LayoutAssumption DEF FieldTimes
      <4>2. QED BY <4>1, ShiftMonotone
    <3>6. Shift(Epoch + TimeCap) = TimeCap * MsUnit
      <4>1. (Epoch + TimeCap) - Epoch = TimeCap BY LayoutAssumption
      <4>2. QED BY <4>1 DEF Shift
    <3>7. QED BY <3>4, <3>5, <3>6, MsUnitType DEF NaturalIds
  <2> SUFFICES ASSUME NEW i \in Instances, NEW j \in Instances,
                      NEW k \in DOMAIN issued[i], NEW l \in DOMAIN issued[j]
               PROVE  /\ Decode(Encode(issued[i][k])) = [n |-> issued[i][k], ok |-> TRUE]
                      /\ Encode(issued[j][l]) = Encode(issued[i][k]) => i = j /\ k = l
    BY Zenon DEF CodesNameIds
  <2>2. /\ Decode(Encode(issued[i][k])) = [n |-> issued[i][k], ok |-> TRUE]
        /\ Decode(Encode(issued[j][l])) = [n |-> issued[j][l], ok |-> TRUE]
    BY <2>1, DecodeInvertsEncode
  <2>3. ASSUME Encode(issued[j][l]) = Encode(issued[i][k]) PROVE issued[i][k] = issued[j][l]
    BY <2>2, <2>3
  <2>4. k \in 1 .. Len(issued[i]) /\ l \in 1 .. Len(issued[j]) BY <1>1 DEF IInv, TypeOK
  <2>5. issued[i][k] = issued[j][l] => i = j /\ k = l BY <1>1, <2>4 DEF IdsUnique
  <2>6. QED BY <2>2, <2>3, <2>5
<1>2. QED BY <1>1, Inductive, IssuedIdsUnique, PTL

=============================================================================
