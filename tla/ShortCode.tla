------------------------------ MODULE ShortCode ------------------------------
(***************************************************************************)
(* internal/shortcode: the digits of an ID in some base.  A character of   *)
(* the alphabet is its index; `base` itself stands for any other character.*)
(***************************************************************************)
EXTENDS SnowflakeId, Sequences, SequencesExt

CONSTANT base  \* 62 in the code

ASSUME ShortCodeAssumption == base \in Nat \ {0, 1}

\* The digits from the lowest to the highest, as the loop of Encode appends them;
\* it does nothing with a negative number.
LowFirst[id \in Int] ==
  IF id > 0 THEN <<id % base>> \o LowFirst[id \div base] ELSE <<>>

\* Mutant: the digits are not turned round.
EncodeLowFirst(id) == IF id = 0 THEN <<0>> ELSE LowFirst[id]

Encode(id) == IF id = 0 THEN <<0>> ELSE Reverse(LowFirst[id])

\* The number the loop of Decode has after all characters; one that is too large
\* wraps around.
Number(s) ==
  LET n[k \in 0 .. Len(s)] == IF k = 0 THEN 0 ELSE Int64(n[k - 1] * base + s[k])
  IN  n[Len(s)]

\* An empty code or a character outside the alphabet is an error.
Decode(s) ==
  IF s = <<>> \/ \E k \in DOMAIN s : s[k] >= base
  THEN [n |-> 0, ok |-> FALSE]
  ELSE [n |-> Number(s), ok |-> TRUE]

=============================================================================
