----------------------------- MODULE ClickStream -----------------------------
(***************************************************************************)
(* What internal/clicks promises to the redirect handler and to consumers  *)
(* of the topic: a click is written to it at most once, the clicks of one  *)
(* link in the order they were taken, and one that is not written is in    *)
(* the log of losses, unless the process is ended by force.  Partitions,   *)
(* batches, brokers and the phases of the shutdown are not part of it.     *)
(***************************************************************************)
EXTENDS Integers, Sequences, Functions

CONSTANTS Clicks, LinkOf   \* LinkOf[r]: the link that was clicked

VARIABLES
  taken,    \* the clicks that Publish has taken, oldest first
  pending,  \* those whose end is open
  read,     \* clicks in the topic
  lost,     \* clicks in the log of losses
  end       \* whether the process is there, has ended, or was ended by force

streamVars == <<taken, pending, read, lost, end>>

Taken == Range(taken)

Init ==
  /\ taken = <<>>
  /\ pending = {} /\ read = {} /\ lost = {}
  /\ end = "open"

Take(r) ==
  /\ end = "open"
  /\ r \notin Taken \cup lost
  /\ taken' = Append(taken, r)
  /\ pending' = pending \cup {r}
  /\ UNCHANGED <<read, lost, end>>

\* Of the pending clicks of a link, these are the first that were taken.
InOrder(some) == \A m, n \in DOMAIN taken :
  taken[m] \in some /\ taken[n] \in pending \ some /\ LinkOf[taken[m]] = LinkOf[taken[n]] => m < n

Read(r) ==
  /\ end = "open"
  /\ r \in pending
  /\ InOrder({r})
  /\ read' = read \cup {r}
  /\ pending' = pending \ {r}
  /\ UNCHANGED <<taken, lost, end>>

\* Clicks are given up and logged: one that was never taken, or pending ones, some
\* of which may be read all the same.
Lose(some, got) ==
  /\ end = "open"
  /\ some \subseteq pending \/ some \cap Taken = {}
  /\ got \subseteq some \cap pending /\ InOrder(got)
  /\ lost' = lost \cup some
  /\ read' = read \cup got
  /\ pending' = pending \ some
  /\ UNCHANGED <<taken, end>>

\* Only an end by force leaves clicks without a trace.
End(got) ==
  /\ end = "open"
  /\ \/ end' = "clean" /\ pending = {}
     \/ end' = "forced"
  /\ got \subseteq pending /\ InOrder(got)
  /\ read' = read \cup got
  /\ pending' = {}
  /\ UNCHANGED <<taken, lost>>

Next ==
  \/ \E r \in Clicks : Take(r) \/ Read(r)
  \/ \E some, got \in SUBSET Clicks : Lose(some, got)
  \/ \E got \in SUBSET Clicks : End(got)

Spec == Init /\ [][Next]_streamVars

-----------------------------------------------------------------------------
\* What follows for whoever relies on it: a click that is read or lost is settled
\* for good, none is forgotten but by force, and of the clicks of a link none that
\* is still to be written was taken before one that is in the topic.
Settles ==
  /\ pending \cup read \subseteq Taken
  /\ pending \cap (read \cup lost) = {}
  /\ end # "forced" => Taken \subseteq pending \cup read \cup lost
  /\ \A m, n \in DOMAIN taken :
       taken[m] \in read /\ taken[n] \in pending /\ LinkOf[taken[m]] = LinkOf[taken[n]] => m < n

=============================================================================
