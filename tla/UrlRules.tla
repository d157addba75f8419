------------------------------ MODULE UrlRules ------------------------------
(***************************************************************************)
(* internal/link/validate.go: which URLs a link may have, and the form     *)
(* they are stored in.  A URL is what its rules look at: whether there are *)
(* spaces around it, its length without them, the bytes that it grows by   *)
(* when it is written out again, whether it parses, its scheme, its host,  *)
(* and its tail: an empty fragment has the length 1, one more for each     *)
(* space before it at the end of the query, and 0 is no such fragment.     *)
(***************************************************************************)
EXTENDS Integers

CONSTANTS
  maxURLLength,  \* 2048 in the code
  NoUrl          \* the result of a URL that is refused

\* Names and literal addresses, one for each rule, and two that are outside all.
Localhosts == {"localhost", "api.localhost"}
InternalIPs == {"127.0.0.1", "10.0.0.5", "0.0.0.0", "fe80::1", "ff02::1"}
InternalHosts == Localhosts \cup InternalIPs
Hosts == InternalHosts \cup {"", "LOCALHOST", "8.8.8.8", "example.com"}

UrlForms == [spaces : BOOLEAN, length : Nat, grows : Int, tail : Nat, parses : BOOLEAN,
             scheme : {"", "http", "HTTP", "https", "ftp"}, host : Hosts]

Lower(s) == CASE s = "HTTP" -> "http" [] s = "LOCALHOST" -> "localhost" [] OTHER -> s

\* Mutant: names are compared as they are written.
IsBlockedAsWritten(host) == host \in InternalHosts

isBlockedHost(host) == Lower(host) \in InternalHosts

IsRefused(raw) ==
  \/ raw.length = 0 \/ raw.length > maxURLLength
  \/ ~raw.parses
  \/ Lower(raw.scheme) \notin {"http", "https"}
  \/ raw.host = "" \/ isBlockedHost(raw.host)

\* TrimSpace, Parse and String: the scheme is in lower case and what needs it is
\* escaped, an empty fragment is left out, and the query stays as it is, so that
\* spaces before the fragment are now at the end.
Written(raw) ==
  [raw EXCEPT !.spaces = raw.tail > 1, !.scheme = Lower(@),
              !.length = @ + raw.grows - raw.tail, !.grows = 0, !.tail = 0]

NormalizeAndValidateURL(raw) == IF IsRefused(raw) THEN NoUrl ELSE Written(raw)

=============================================================================
