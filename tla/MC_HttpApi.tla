------------------------------ MODULE MC_HttpApi ------------------------------
(***************************************************************************)
(* An instance of HttpApi for TLC: requests of every kind, two             *)
(* dependencies, two users with a token each.                              *)
(***************************************************************************)
EXTENDS HttpApi

CONSTANTS alice, bob, s, t

Owner == [tok \in Tokens |-> IF tok = s THEN alice ELSE bob]

=============================================================================
