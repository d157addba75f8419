-------------------------- MODULE MC_ClickDelivery --------------------------
(***************************************************************************)
(* An instance of ClickDelivery for TLC: clicks on two links that fall     *)
(* into different partitions, and a buffer that fills up.                  *)
(***************************************************************************)
EXTENDS ClickDelivery

CONSTANTS k1, k2, k3, a, b, p1, p2

\* Two clicks on a, one on b.
TwoAndOne == [r \in Clicks |-> IF r = k3 THEN b ELSE a]
ByCode == [c \in Codes |-> IF c = a THEN p1 ELSE p2]

=============================================================================
