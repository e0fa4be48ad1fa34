---------------------------- MODULE ToolCatalog ----------------------------
(***************************************************************************)
(* The live tool catalog (shared_mcp/runtime.go: catalog, ListTools,       *)
(* ResolveTools, CallResolved), and the memory sources that go to upstream *)
(* servers by the name of their route (shared_memory/runtime.go).          *)
(*                                                                         *)
(* There is no registry: every request discovers the routes, asks one      *)
(* after the other for its tools, and names what it got.  A tool that two  *)
(* of the routes that answered offer is named route__tool, any other tool  *)
(* by its own name.  A client lists the tools at one time and calls one of *)
(* them by name at another, when other routes may be discovered or answer: *)
(* the call goes to whatever the name means then.  A memory source is a    *)
(* route's name, and its tools are listed and called wherever discovery    *)
(* finds that name, each time anew.                                        *)
(***************************************************************************)
EXTENDS Integers, Sequences, FiniteSets

CONSTANTS
  Size,     \* endpoints are numbered in the order in which they are asked
  Slug,     \* endpoint -> route name; names are sequences of the parts that
  Tools,    \* "__" separates
  Offers,   \* endpoint -> the tools its upstream has
  Sources   \* the route names of the memory sources

Endpoints == 1 .. Size

ASSUME SizeAssumption == Size \in Nat
ASSUME OffersAssumption == Offers \in [Endpoints -> SUBSET Tools]

VARIABLES
  request,      \* the request under way: "none", "list", or the call of a name
  asked,        \* the endpoints its discovery returned
  answered,     \* those that have answered with their tools
  polled,       \* how far it has asked
  known,        \* the tools the client was told of, and in which catalog
  listed,       \* the memory sources it was told the tools of, and by which route
  outcome       \* how the client's last call went

vars == <<request, asked, answered, polled, known, listed, outcome>>

----------------------------------------------------------------------------
(***************************************************************************)
(* The catalog of a set of endpoints that answered.                        *)
(***************************************************************************)

\* nameCounts[t] > 1.
Duplicated(t, live) ==
  \E d, e \in live : d # e /\ t \in Offers[d] \cap Offers[e]

Qualified(e, t) == Slug[e] \o t

\* Mutant of Canonical: the first route to offer a name keeps it.
CanonicalFirstWins(e, t, live) ==
  IF \E d \in live : d < e /\ t \in Offers[d] THEN Qualified(e, t) ELSE t

Canonical(e, t, live) == IF Duplicated(t, live) THEN Qualified(e, t) ELSE t

Entries(live) == {[owner |-> x[1], tool |-> x[2], name |-> Canonical(x[1], x[2], live)] :
                    x \in {y \in live \X Tools : y[2] \in Offers[y[1]]}}

\* canonicalSeen: such a catalog is an error (mcp_catalog_collision).
Collides(live) == \E x, y \in Entries(live) : x # y /\ x.name = y.name

----------------------------------------------------------------------------
NoRequest == [kind |-> "none"]

Init ==
  /\ request = NoRequest
  /\ asked = {}
  /\ answered = {}
  /\ polled = 0
  /\ known = {}
  /\ listed = {}
  /\ outcome = NoRequest

\* activeTransports: routes are added to AgentGateway's configuration and removed
\* at any time, and a request asks those it finds there when it begins.
Begin(r) ==
  /\ request = NoRequest
  /\ request' = r
  /\ asked' \in (SUBSET Endpoints) \ {{}}
  /\ outcome' = NoRequest
  /\ UNCHANGED <<answered, polled, known, listed>>

BeginList == Begin([kind |-> "list"])

\* mcp_call of a name the client was told.
BeginCall == \E k \in known : Begin([kind |-> "call", entry |-> k])

\* Mutant of Poll: every route that was ever seen is asked.
PollEveryRoute ==
  /\ request # NoRequest
  /\ polled < Size
  /\ polled' = polled + 1
  /\ \/ answered' = answered \cup {polled + 1}
     \/ UNCHANGED answered
  /\ UNCHANGED <<request, asked, known, listed, outcome>>

\* The next endpoint answers ListTools, or does not.
Poll ==
  /\ request # NoRequest
  /\ polled < Size
  /\ polled' = polled + 1
  /\ \/ /\ polled + 1 \in asked
        /\ answered' = answered \cup {polled + 1}
     \/ UNCHANGED answered
  /\ UNCHANGED <<request, asked, known, listed, outcome>>

\* mcp_unavailable or mcp_catalog_collision.
NoCatalog == answered = {} \/ Collides(answered)

End ==
  /\ request' = NoRequest
  /\ asked' = {}
  /\ answered' = {}
  /\ polled' = 0

EndList ==
  /\ request.kind = "list"
  /\ polled = Size
  /\ End
  /\ known' = IF NoCatalog
              THEN known
              ELSE {[entry |-> x, from |-> answered] : x \in Entries(answered)}
  /\ UNCHANGED <<listed, outcome>>

\* Mutant of Refusal: an unknown name is denied whether or not routes failed.
RefusalDenies == "denied"

\* A name that is not in the catalog: it may be on a route that failed.
Refusal == IF asked # answered THEN "unavailable" ELSE "denied"

\* ResolveTools, and CallResolved with the owner it found.
EndCall ==
  /\ request.kind = "call"
  /\ polled = Size
  /\ End
  /\ LET wanted == request.entry.entry.name
         found == {x \in Entries(answered) : x.name = wanted}
     IN  outcome' =
           IF NoCatalog
           THEN [kind |-> "error", asked |-> asked, live |-> answered,
                 meant |-> request.entry, reached |-> {}]
           ELSE [kind |-> IF found = {} THEN Refusal ELSE "sent", asked |-> asked,
                 live |-> answered, meant |-> request.entry, reached |-> found]
  /\ UNCHANGED <<known, listed>>

----------------------------------------------------------------------------
(***************************************************************************)
(* Memory sources.  A request that reaches no route changes nothing the    *)
(* client knows.                                                           *)
(***************************************************************************)

\* Mutant of TransportForRoute: the first endpoint of that name.
TransportForFirst(slug, found) ==
  {e \in found : Slug[e] = slug /\ \A d \in found : Slug[d] = slug => e <= d}

\* The endpoint of that name, if discovery found one and only one.
TransportForRoute(slug, found) ==
  {e \in found : Slug[e] = slug /\ \A d \in found : Slug[d] = slug => d = e}

\* memory_list: of a source whose route answers.
MemoryList ==
  /\ request = NoRequest
  /\ \E s \in Sources, found \in SUBSET Endpoints :
       \E e \in TransportForRoute(s, found) :
         listed' = {k \in listed : k.source # s} \cup {[source |-> s, owner |-> e, from |-> found]}
  /\ UNCHANGED <<request, asked, answered, polled, known, outcome>>

\* memory_call of a tool of a source that was listed.
MemoryCall ==
  /\ request = NoRequest
  /\ \E k \in listed, found \in SUBSET Endpoints :
       LET reached == TransportForRoute(k.source, found)
       IN  outcome' = [kind |-> IF reached = {} THEN "no_route" ELSE "routed",
                       live |-> found, meant |-> k, reached |-> reached]
  /\ UNCHANGED <<request, asked, answered, polled, known, listed>>

Next == BeginList \/ BeginCall \/ Poll \/ EndList \/ EndCall \/ MemoryList \/ MemoryCall

Spec == Init /\ [][Next]_vars

----------------------------------------------------------------------------
(***************************************************************************)
(* Properties.                                                             *)
(***************************************************************************)

Entry == [owner : Endpoints, tool : Tools, name : Tools \cup {Qualified(e, t) : e \in Endpoints, t \in Tools}]
Known == [entry : Entry, from : SUBSET Endpoints]
Listing == [source : Sources, owner : Endpoints, from : SUBSET Endpoints]

\* Type correctness.
TypeOK ==
  /\ request \in {NoRequest, [kind |-> "list"]} \cup [kind : {"call"}, entry : Known]
  /\ answered \subseteq asked /\ asked \subseteq Endpoints
  /\ polled \in 0 .. Size
  /\ known \subseteq Known
  /\ listed \subseteq Listing
  /\ outcome = NoRequest
     \/ outcome \in [kind : {"routed", "no_route"}, live : SUBSET Endpoints, meant : Listing,
                     reached : SUBSET Endpoints]
     \/ outcome \in [kind : {"sent", "denied", "unavailable", "error"}, asked : SUBSET Endpoints,
                     live : SUBSET Endpoints, meant : Known, reached : SUBSET Entry]

\* A name that can be read in one way only.  Nothing keeps a tool's own name from
\* looking like a route and a tool.
OneReading(n) ==
  \A d, e \in Endpoints : \A t \in Offers[d], u \in Offers[e] :
    n = Qualified(d, t) => n # u /\ (n = Qualified(e, u) => t = u)

Same(x, y) == x.owner = y.owner /\ x.tool = y.tool

\* A call reaches the tool the client was shown under that name, although the
\* name may mean something else by now, or is refused: as long as routes only
\* disappeared since, or only appeared, and no tool of a route is called like a
\* route and a tool of it (such a name can pass from the one to the other).
NamesKeepTheirMeaning ==
  /\ outcome.kind = "sent"
  /\ OneReading(outcome.meant.entry.name)
  /\ outcome.meant.from \subseteq outcome.live \/ outcome.live \subseteq outcome.meant.from
  => \A x \in outcome.reached : Same(x, outcome.meant.entry)

\* A memory call goes to the upstream whose tools its source was listed with,
\* or nowhere, although routes of the same name may be there: as long as routes
\* only disappeared since, or only appeared.
SourcesKeepTheirRoute ==
  /\ outcome.kind = "routed"
  /\ outcome.meant.from \subseteq outcome.live \/ outcome.live \subseteq outcome.meant.from
  => outcome.reached = {outcome.meant.owner}

\* A client that is told that a tool does not exist can rely on it, although the
\* catalog it asks by name is not the one it was told the name in: if the tool's
\* route was among those discovered, all of them answered, and another route has
\* begun or ceased to offer that name, so that the tool is listed under another.
OnlyRenamedIsDenied ==
  /\ outcome.kind = "denied"
  /\ outcome.meant.entry.owner \in outcome.asked
  => LET tool == outcome.meant.entry.tool
     IN  Duplicated(tool, outcome.live) # Duplicated(tool, outcome.meant.from)
=============================================================================
