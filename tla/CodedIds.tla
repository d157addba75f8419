------------------------------ MODULE CodedIds ------------------------------
(***************************************************************************)
(* The short codes of the IDs that are issued: Service.Create stores a     *)
(* link under shortcode.Encode of the ID it has drawn.                     *)
(***************************************************************************)
EXTENDS Snowflake, ShortCode

\* The code of an ID names it: it can be a path segment, decodes to the ID, and no
\* ID of any process has the same one (service.go: Create; base62.go: Encode).
\* A negative ID would have the empty code.
CodesNameIds == \A i, j \in Instances :
  \A k \in DOMAIN issued[i], l \in DOMAIN issued[j] :
    LET id == issued[i][k]
    IN  /\ Decode(Encode(id)) = [n |-> id, ok |-> TRUE]
        /\ Encode(issued[j][l]) = Encode(id) => i = j /\ k = l

=============================================================================
