------------------------------ MODULE IdSource ------------------------------
(***************************************************************************)
(* What internal/snowflake promises to its users (link.IDGenerator and     *)
(* clicks.IDGenerator): every process draws IDs that grow, and no ID is    *)
(* ever drawn twice, by whichever process.  Clocks, sequence numbers and   *)
(* the mutex are not part of the promise.                                  *)
(***************************************************************************)
EXTENDS Integers, Sequences

CONSTANTS Instances, Ids

VARIABLE issued   \* issued[i]: the IDs process i has drawn, oldest first

DrawnBy(i) == {issued[i][k] : k \in 1 .. Len(issued[i])}
Drawn == UNION {DrawnBy(i) : i \in Instances}

Init == issued = [i \in Instances |-> <<>>]

Draw(i) == \E id \in Ids :
  /\ id \notin Drawn
  /\ \A old \in DrawnBy(i) : old < id
  /\ issued' = [issued EXCEPT ![i] = Append(@, id)]

Next == \E i \in Instances : Draw(i)

Spec == Init /\ [][Next]_issued

=============================================================================
