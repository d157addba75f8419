----------------------------- MODULE ValidLinks -----------------------------
(***************************************************************************)
(* LinkService with the rules of URLs: only Create looks at them, and what *)
(* it has let in is stored, cached and redirected to.                      *)
(***************************************************************************)
EXTENDS LinkService, UrlRules

ASSUME UrlRulesAssumption ==
  /\ RawUrls \subseteq UrlForms /\ NoUrl = None /\ maxURLLength \in Nat
  /\ \A raw \in RawUrls : ~IsRefused(raw) =>   \* "%xx" for a byte
       raw.length + raw.grows - raw.tail \in 1 .. 3 * raw.length
  /\ Normalize = [raw \in RawUrls |-> NormalizeAndValidateURL(raw)]
  /\ \A c \in Codes : OldLinks[c] # None => \E raw \in RawUrls : OldLinks[c].url = Normalize[raw]

\* What a URL has passed, independently of its spelling; escaping may make three
\* bytes of one, and nobody measures its result.
IsPublic(url) ==
  /\ url.scheme \in {"http", "https"} /\ url.parses
  /\ url.host \notin InternalHosts \cup {"", "LOCALHOST"}
  /\ url.length \in 1 .. 3 * maxURLLength

\* Submitted again, it is taken, and but for the spaces at its end it is the same.
IsStable(url) == NormalizeAndValidateURL(url) = [url EXCEPT !.spaces = FALSE]

IsValid(url) == IsPublic(url) /\ (url.length <= maxURLLength => IsStable(url))

\* Nobody is sent to a URL that Create would refuse for anything but its length, by
\* a row, a cached entry or a SET that is still on its way.  One that was stored
\* loses nothing but spaces at its end when it is submitted again, unless escaping
\* has made it too long (validate.go: NormalizeAndValidateURL; service.go: Create,
\* Resolve).
TargetsAreValid ==
  LET urls == {db[c].url : c \in {d \in Codes : db[d] # None}}
                \cup {cache[c].target.url : c \in {d \in Codes : IsHit(cache[d])}}
                \cup {m.target.url : m \in wire}
                \cup {answer[r].target.url : r \in {s \in Reqs : answer[s] # None /\ answer[s].target # None}}
  IN  \A url \in urls : IsValid(url)

(***************************************************************************)
(* Why it holds: only what Create is about to insert is not yet a row.     *)
(***************************************************************************)
UrlsChecked ==
  /\ \A c \in Codes : db[c] # None => IsValid(db[c].url)
  /\ \A r \in Reqs : pc[r] = "insert" => IsValid(link[r].url)
  /\ \A r \in Reqs : answer[r] # None /\ answer[r].target # None => IsValid(answer[r].target.url)

=============================================================================
