--------------------------- MODULE MC_LinkService ---------------------------
(***************************************************************************)
(* An instance of LinkService for TLC: two IDs, which concurrent creates   *)
(* may draw twice, and their codes, two URLs submitted in a form that is   *)
(* normalised, and forms that are refused, one for each rule.              *)
(***************************************************************************)
EXTENDS FreshLinks

CONSTANTS r1, r2, a, b

EncodeIds == [id \in Ids |-> IF id = 1 THEN a ELSE b]

\* As submitted: one with spaces around it and an empty fragment after a space, one
\* that escaping makes longer than any that is accepted.
u == [spaces |-> TRUE, length |-> 4, grows |-> 0, tail |-> 2, parses |-> TRUE,
      scheme |-> "HTTP", host |-> "example.com"]
v == [spaces |-> FALSE, length |-> 2, grows |-> 4, tail |-> 0, parses |-> TRUE,
      scheme |-> "https", host |-> "8.8.8.8"]
Refusable ==
  {[u EXCEPT !.length = 0], [u EXCEPT !.length = 5], [u EXCEPT !.parses = FALSE],
   [u EXCEPT !.scheme = "ftp"], [u EXCEPT !.scheme = ""]}
    \cup {[v EXCEPT !.host = h] : h \in Hosts \ {u.host, v.host}}
Submitted == {u, v} \cup Refusable
NormalizeSubmitted == [raw \in Submitted |-> NormalizeAndValidateURL(raw)]

\* As stored.
Stored == {NormalizeSubmitted[raw] : raw \in Submitted} \ {NoUrl}

\* A link that was there before the upgrade to the present cache format.
OneOldLink == [c \in Codes |-> IF c = a THEN [id |-> 1, url |-> Written(v), exp |-> 1] ELSE None]

\* The clock of the host that serves r2 lags.
LaggingClock == [r \in Reqs |-> IF r = r2 THEN -1 ELSE 0]
GoodClocks == [r \in Reqs |-> 0]

\* The full behaviour with the first ID; with the second one that of creates: at the
\* start of time, no redirect was asked for, no SET is executed and at most one is
\* on its way.
OnlyCreatesUse2 == 2 \in drawn =>
  /\ now = 0 /\ Cardinality(wire) <= 1
  /\ \A c \in Codes : ~IsHit(cache[c])
  /\ \A r \in Reqs : code[r] = None

=============================================================================
