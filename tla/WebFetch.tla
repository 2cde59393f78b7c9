------------------------------ MODULE WebFetch ------------------------------
(***************************************************************************)
(* tools/web.py: one fetch of a page, with the resolver, which may answer  *)
(* differently each time, and servers that redirect, stall, break off or   *)
(* send more than is wanted.                                               *)
(*                                                                         *)
(* Time is counted in Deadline ticks for the 20 s of a fetch, sizes in     *)
(* parts of the largest body.  The text made of a page is left out.        *)
(***************************************************************************)
EXTENDS Integers, FiniteSets

CONSTANTS
  Hosts,          \* hosts a URL may name
  Refused,        \* those validate_public_url refuses by their name alone
  Addresses,      \* what a name may resolve to
  Public,         \* the globally routable ones
  MaxRedirects,   \* _max_redirects
  Limit,          \* max_browser_bytes
  Deadline        \* _total_timeout

WebFetchAssumption ==
  /\ Refused \subseteq Hosts /\ Public \subseteq Addresses /\ "nowhere" \notin Addresses
  /\ {MaxRedirects, Limit} \subseteq Nat /\ Deadline \in Nat \ {0}

VARIABLES
  at,          \* where fetch_public waits, or how it ended
  host, hop,   \* the target, and the redirects followed so far
  address,     \* what resolve_public_address returned last
  open,        \* connections that are open: the address dialled, the host asked for
  dialled,     \* every address dialled, with the answers it was chosen from
  requests,    \* requests sent
  size,        \* what was read of the body
  clock,       \* since the fetch began
  cancelled    \* the run context

vars == <<at, host, hop, address, open, dialled, requests, size, clock, cancelled>>

Waiting == {"hop", "resolving", "dialling", "headers", "body"}
Ended == {"answered", "refused", "failed", "cancelled", "timeout"}
Nowhere == "nowhere"

Init ==
  /\ at = "idle" /\ host \in Hosts /\ hop = 0 /\ address = Nowhere
  /\ open = {} /\ dialled = {} /\ requests = 0 /\ size = 0 /\ clock = 0
  /\ cancelled = FALSE

-----------------------------------------------------------------------------
\* Every end leaves the response, the client and the timeout.
End(how) == at' = how /\ open' = {}

Allowed(name) == name \notin Refused

Begin ==
  /\ at = "idle"
  /\ at' = IF Allowed(host) THEN "hop" ELSE "refused"
  /\ UNCHANGED <<host, hop, address, open, dialled, requests, size, clock, cancelled>>

Send ==
  /\ at = "hop"
  /\ IF cancelled THEN End("cancelled") ELSE at' = "resolving" /\ UNCHANGED open
  /\ UNCHANGED <<host, hop, address, dialled, requests, size, clock, cancelled>>

\* Mutant: a name is good when one of its answers is.
VouchedByOne(answers) == answers \cap Public # {}

Vouched(answers) == answers # {} /\ answers \subseteq Public

\* Any of the answers may be the first.
Resolve(answers) ==
  /\ at = "resolving"
  /\ IF Vouched(answers)
     THEN /\ at' = "dialling" /\ UNCHANGED open
          /\ \E first \in answers : address' = first
          /\ dialled' = dialled \cup {[address |-> address', answers |-> answers]}
     ELSE End("failed") /\ UNCHANGED <<address, dialled>>
  /\ UNCHANGED <<host, hop, requests, size, clock, cancelled>>

\* PinnedTransport dials the address it checked and asks for the host.
Dial ==
  /\ at = "dialling" /\ at' = "headers"
  /\ open' = open \cup {[address |-> address, host |-> host, of |-> hop]}
  /\ requests' = requests + 1
  /\ UNCHANGED <<host, hop, address, dialled, size, clock, cancelled>>

\* Mutant: one redirect too many.
TooManyCounted == hop > MaxRedirects

TooMany == hop >= MaxRedirects

\* Mutant: the response of a hop stays open while the next one is made.
LeaveKept == UNCHANGED open

Leave == open' = {}

Redirected(next) ==
  /\ at = "headers"
  /\ IF TooMany \/ ~Allowed(next)
     THEN End("failed") /\ UNCHANGED <<host, hop>>
     ELSE at' = "hop" /\ host' = next /\ hop' = hop + 1 /\ Leave
  /\ UNCHANGED <<address, dialled, requests, size, clock, cancelled>>

Success ==
  /\ at = "headers" /\ at' = "body" /\ size' = 0
  /\ UNCHANGED <<host, hop, address, open, dialled, requests, clock, cancelled>>

\* Another status, or a name, a connection or a body that breaks off.
Breaks ==
  /\ at \in {"resolving", "dialling", "headers", "body"} /\ End("failed")
  /\ UNCHANGED <<host, hop, address, dialled, requests, size, clock, cancelled>>

\* Mutant: the size is looked at before the part is added.
TooLargeBefore(part) == size > Limit

TooLarge(part) == size + part > Limit

Read(part) ==
  /\ at = "body"
  /\ IF TooLarge(part) THEN End("failed") /\ UNCHANGED size
     ELSE size' = size + part /\ UNCHANGED <<at, open>>
  /\ UNCHANGED <<host, hop, address, dialled, requests, clock, cancelled>>

Answer ==
  /\ at = "body" /\ End("answered")
  /\ UNCHANGED <<host, hop, address, dialled, requests, size, clock, cancelled>>

\* Mutant: only the connection has a timeout.
TimeoutOfConnection ==
  /\ at \in {"dialling", "headers", "body"} /\ clock = Deadline /\ End("timeout")
  /\ UNCHANGED <<host, hop, address, dialled, requests, size, clock, cancelled>>

\* asyncio.timeout, wherever the fetch waits.
Timeout ==
  /\ at \in Waiting \ {"hop"} /\ clock = Deadline /\ End("timeout")
  /\ UNCHANGED <<host, hop, address, dialled, requests, size, clock, cancelled>>

Tick ==
  /\ at \in Waiting \ {"hop"} /\ clock < Deadline /\ clock' = clock + 1
  /\ UNCHANGED <<at, host, hop, address, open, dialled, requests, size, cancelled>>

Cancel ==
  /\ at \in Waiting /\ ~cancelled /\ cancelled' = TRUE
  /\ UNCHANGED <<at, host, hop, address, open, dialled, requests, size, clock>>

Next ==
  \/ Begin \/ Send \/ (\E answers \in SUBSET Addresses : Resolve(answers)) \/ Dial
  \/ (\E next \in Hosts : Redirected(next)) \/ Success \/ Breaks
  \/ (\E part \in 1..Limit : Read(part)) \/ Answer
  \/ Timeout \/ Tick \/ Cancel

\* The program's own steps, and time.  Neither the resolver nor a server ever
\* has to answer.
Fairness == WF_vars(Begin) /\ WF_vars(Send) /\ WF_vars(Tick) /\ WF_vars(Timeout)

Spec == Init /\ [][Next]_vars /\ Fairness

-----------------------------------------------------------------------------
(* Properties.                                                             *)

\* docs/tools.md:92: nothing is dialled but an address that was checked, all of
\* whose fellow answers were public, whatever the redirects and however often
\* the resolver changes its mind.
OnlyPublicIsDialled ==
  /\ \A d \in dialled : d.answers \subseteq Public
  /\ \A c \in open : c.address \in Public /\ c.address = address /\ Allowed(c.host)

\* web.py:109: a refused target costs no connection, the first as well as one a
\* redirect names; a hop has one connection, and the end leaves none.
OneConnection ==
  /\ Cardinality(open) <= 1
  /\ at \in Ended \cup {"hop", "resolving", "dialling"} => open = {}

\* A page that is answered fits, and cost one request for each of the redirects
\* that were allowed and one more.
AnswerIsBounded ==
  /\ requests <= MaxRedirects + 1
  /\ at = "answered" => size <= Limit

\* web_fetch reaches nothing it should not, and takes no more than it may.
FetchIsGuarded == OnlyPublicIsDialled /\ OneConnection /\ AnswerIsBounded

Over == at \in Ended

\* Servers and resolvers may stall wherever they like: the fetch ends.
FetchEnds == <>Over
=============================================================================
