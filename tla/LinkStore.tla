------------------------------ MODULE LinkStore ------------------------------
(***************************************************************************)
(* What the link service promises its clients, without its cache: a table  *)
(* of links that only grows, and an answer to each request that agrees     *)
(* with the table at one moment between the request and its answer.  Only  *)
(* expiry is blurred: the hosts' clocks differ and a cache entry may be    *)
(* written late, so a link may be served for Late after its expires_at and *)
(* refused for Early before it.                                            *)
(***************************************************************************)
EXTENDS Integers

CONSTANTS Reqs, Codes, Links, Never, None, Late, Early

VARIABLES
  links,    \* links[c]: the link stored under short code c, or None
  time,
  asked,    \* asked[r]: the code r asks to be redirected to, None for a create
  answer    \* answer[r]: what r is answered, None until it is decided

vars == <<links, time, asked, answer>>

Target(l) == [id |-> l.id, url |-> l.url]

Init ==
  /\ links \in [Codes -> Links \cup {None}]
  /\ time = 0
  /\ asked = [r \in Reqs |-> None]
  /\ answer = [r \in Reqs |-> None]

Decide(r, status, target) ==
  answer' = [answer EXCEPT ![r] = [status |-> status, target |-> target]]

\* A request arrives; a bad one is refused on the spot.
Ask(r) ==
  /\ \E c \in Codes \cup {None} : asked' = [asked EXCEPT ![r] = c]
  /\ \/ answer' = [answer EXCEPT ![r] = None]
     \/ \E status \in {400, 500} : Decide(r, status, None)
  /\ UNCHANGED <<links, time>>

\* A code is given to one link and never again.  The answer may be lost.
Store(r) == \E c \in Codes, l \in Links :
  /\ links[c] = None
  /\ links' = [links EXCEPT ![c] = l]
  /\ Decide(r, 201, Target(l)) \/ Decide(r, 500, None)
  /\ UNCHANGED <<time, asked>>

Redirect(r) == \E c \in Codes :
  /\ asked[r] = c
  /\ links[c] # None
  /\ links[c].exp # Never => time <= links[c].exp + Late
  /\ Decide(r, 302, Target(links[c]))
  /\ UNCHANGED <<links, time, asked>>

Refuse(r) == \E c \in Codes :
  /\ asked[r] = c
  /\ \/ links[c] = None /\ Decide(r, 404, None)
     \/ /\ links[c] # None
        /\ links[c].exp # Never
        /\ time > links[c].exp - Early
        /\ Decide(r, 410, None)
  /\ UNCHANGED <<links, time, asked>>

Fail(r) == Decide(r, 500, None) /\ UNCHANGED <<links, time, asked>>

\* The process that serves r dies.
GiveUp(r) ==
  /\ answer' = [answer EXCEPT ![r] = None]
  /\ UNCHANGED <<links, time, asked>>

Tick == time' > time /\ UNCHANGED <<links, asked, answer>>

Next ==
  \/ Tick
  \/ \E r \in Reqs : Ask(r) \/ Store(r) \/ Redirect(r) \/ Refuse(r) \/ Fail(r) \/ GiveUp(r)

Spec == Init /\ [][Next]_vars

=============================================================================
