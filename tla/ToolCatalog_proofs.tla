------------------------- MODULE ToolCatalog_proofs -------------------------
(***************************************************************************)
(* What tool names mean, for any routes and tools.                         *)
(***************************************************************************)
EXTENDS ToolCatalog, TLAPS

\* An entry of a catalog is a tool of one of its endpoints, under the name
\* catalog (shared_mcp/runtime.go) gives it.
LEMMA EntryOf ==
  ASSUME NEW live \in SUBSET Endpoints, NEW x \in Entries(live)
  PROVE  /\ x.owner \in live /\ x.tool \in Tools
         /\ x.tool \in Offers[x.owner]
         /\ x.name = Canonical(x.owner, x.tool, live)
         /\ x = [owner |-> x.owner, tool |-> x.tool, name |-> x.name]
BY DEF Entries

\* Every tool of every endpoint that answered is in the catalog.
LEMMA EntryFor ==
  ASSUME NEW live \in SUBSET Endpoints, NEW e \in live, NEW t \in Tools, t \in Offers[e]
  PROVE  [owner |-> e, tool |-> t, name |-> Canonical(e, t, live)] \in Entries(live)
<1>1. <<e, t>> \in {y \in live \X Tools : y[2] \in Offers[y[1]]}
  OBVIOUS
<1> QED BY <1>1 DEF Entries

\* If more routes answer, a name that can be read in one way either means what it
\* meant or nothing.
LEMMA MeaningGrows ==
  ASSUME NEW few \in SUBSET Endpoints, NEW many \in SUBSET Endpoints,
         few \subseteq many, ~Collides(many),
         NEW x \in Entries(few), NEW y \in Entries(many), x.name = y.name, OneReading(x.name)
  PROVE  Same(x, y)
<1> DEFINE e == x.owner
           t == x.tool
           f == y.owner
           u == y.tool
<1>1. /\ e \in few /\ t \in Tools /\ t \in Offers[e] /\ x.name = Canonical(e, t, few)
  BY EntryOf
<1>2. /\ f \in many /\ u \in Tools /\ u \in Offers[f] /\ y.name = Canonical(f, u, many)
  BY EntryOf
<1> HIDE DEF e, t, f, u
<1>3. /\ x.name = Qualified(e, t) => x.name # u /\ (x.name = Qualified(f, u) => t = u)
      /\ x.name = Qualified(f, u) => x.name # t
  <2>1. e \in Endpoints /\ f \in Endpoints
    BY <1>1, <1>2
  <2> QED BY <1>1, <1>2, <2>1 DEF OneReading
<1>4. CASE Duplicated(t, few)
  <2>1. Duplicated(t, many)
    BY <1>4 DEF Duplicated
  <2>2. x.name = Qualified(e, t)
    BY <1>1, <1>4 DEF Canonical
  <2>3. Duplicated(u, many)
    BY <1>2, <1>3, <2>2 DEF Canonical
  <2>4. Qualified(f, u) = Qualified(e, t)
    BY <1>2, <2>2, <2>3 DEF Canonical
  <2>5. t = u
    BY <1>3, <2>2, <2>4
  <2> DEFINE z == [owner |-> e, tool |-> t, name |-> Canonical(e, t, many)]
  <2>6. z \in Entries(many)
    BY <1>1, EntryFor
  <2>7. z.name = y.name
    BY <2>1, <2>2 DEF Canonical
  <2>8. z = y
    BY <2>6, <2>7 DEF Collides
  <2> QED BY <2>5, <2>8 DEF Same, e, t, f, u
<1>5. CASE ~Duplicated(t, few)
  <2>1. x.name = t
    BY <1>1, <1>5 DEF Canonical
  <2>2. ~Duplicated(u, many)
    <3>1. y.name # Qualified(f, u)
      BY <1>3, <2>1
    <3> QED BY <1>2, <3>1 DEF Canonical
  <2>3. t = u
    BY <1>2, <2>1, <2>2 DEF Canonical
  <2>4. e = f
    BY <1>1, <1>2, <2>2, <2>3 DEF Duplicated
  <2> QED BY <2>3, <2>4 DEF Same, e, t, f, u
<1> QED BY <1>4, <1>5

\* What the client was told is from the catalog it was told it in, which had
\* no collision; and what its last call reached was found under that name.
Told ==
  /\ \A k \in known : k.from \in SUBSET Endpoints /\ ~Collides(k.from) /\ k.entry \in Entries(k.from)
  /\ asked \in SUBSET Endpoints /\ answered \in SUBSET Endpoints
  /\ request.kind = "call" => /\ request.entry.from \in SUBSET Endpoints
                              /\ ~Collides(request.entry.from)
                              /\ request.entry.entry \in Entries(request.entry.from)
  /\ outcome.kind = "sent" =>
       /\ outcome.live \in SUBSET Endpoints /\ ~Collides(outcome.live)
       /\ outcome.meant.from \in SUBSET Endpoints /\ ~Collides(outcome.meant.from)
       /\ outcome.meant.entry \in Entries(outcome.meant.from)
       /\ \A x \in outcome.reached : x \in Entries(outcome.live) /\ x.name = outcome.meant.entry.name
  /\ outcome.kind = "denied" =>
       /\ outcome.live = outcome.asked
       /\ outcome.live \in SUBSET Endpoints
       /\ outcome.meant.from \in SUBSET Endpoints
       /\ outcome.meant.entry \in Entries(outcome.meant.from)
       /\ \A x \in Entries(outcome.live) : x.name # outcome.meant.entry.name
  /\ \A k \in listed : TransportForRoute(k.source, k.from) = {k.owner}
  /\ outcome.kind = "routed" =>
       /\ TransportForRoute(outcome.meant.source, outcome.meant.from) = {outcome.meant.owner}
       /\ outcome.reached = TransportForRoute(outcome.meant.source, outcome.live)
       /\ outcome.reached # {}

LEMMA ToldInit == Init => Told
BY DEF Init, Told, NoRequest

LEMMA ToldNext == Told /\ [Next]_vars => Told'
<1> SUFFICES ASSUME Told, [Next]_vars
             PROVE  Told'
  OBVIOUS
<1> USE DEF Told
<1>1. CASE BeginList
  BY <1>1 DEF BeginList, Begin, NoRequest
<1>2. ASSUME NEW k \in known, Begin([kind |-> "call", entry |-> k])
      PROVE  Told'
  BY <1>2 DEF Begin, NoRequest
<1>3. CASE Poll
  <2>1. answered' \in SUBSET Endpoints
    BY <1>3 DEF Poll
  <2> QED BY <1>3, <2>1 DEF Poll
<1>4. CASE EndList
  <2>1. \A k \in known' : k.from \in SUBSET Endpoints /\ ~Collides(k.from) /\ k.entry \in Entries(k.from)
    BY <1>4 DEF EndList, NoCatalog
  <2> QED BY <1>4, <2>1 DEF EndList, End, NoRequest
<1>5. CASE EndCall
  <2>1. outcome'.kind = "sent" =>
          /\ ~NoCatalog
          /\ outcome'.live = answered
          /\ outcome'.meant = request.entry
          /\ outcome'.reached = {x \in Entries(answered) : x.name = request.entry.entry.name}
    BY <1>5 DEF EndCall, Refusal
  <2>2. outcome'.kind = "denied" =>
          /\ ~NoCatalog /\ answered = asked
          /\ outcome'.live = answered /\ outcome'.asked = asked
          /\ outcome'.meant = request.entry
          /\ \A x \in Entries(answered) : x.name # request.entry.entry.name
    BY <1>5 DEF EndCall, Refusal
  <2>3. outcome'.kind # "routed"
    BY <1>5 DEF EndCall, Refusal
  <2> QED BY <1>5, <2>1, <2>2, <2>3 DEF EndCall, End, NoCatalog, NoRequest
<1>6. CASE MemoryList
  <2>1. PICK s \in Sources, found \in SUBSET Endpoints :
          \E e \in TransportForRoute(s, found) :
            listed' = {k \in listed : k.source # s} \cup {[source |-> s, owner |-> e, from |-> found]}
    BY <1>6 DEF MemoryList
  <2>2. PICK e \in TransportForRoute(s, found) :
          listed' = {k \in listed : k.source # s} \cup {[source |-> s, owner |-> e, from |-> found]}
    BY <2>1
  <2>3. TransportForRoute(s, found) = {e}
    BY <2>2 DEF TransportForRoute
  <2>4. \A k \in listed' : TransportForRoute(k.source, k.from) = {k.owner}
    BY <2>2, <2>3
  <2> QED BY <1>6, <2>4 DEF MemoryList
<1>7. CASE MemoryCall
  BY <1>7 DEF MemoryCall
<1>8. CASE UNCHANGED vars
  BY <1>8 DEF vars
<1> QED BY <1>1, <1>2, <1>3, <1>4, <1>5, <1>6, <1>7, <1>8 DEF Next, BeginCall

\* A call by name reaches the tool that was listed under it, or none, while
\* routes only come or only go, whatever the routes and their tools are, if the
\* name can be read in one way only.
THEOREM NamesAreStable == Spec => []NamesKeepTheirMeaning
<1>1. Told => NamesKeepTheirMeaning
  <2> SUFFICES ASSUME Told, outcome.kind = "sent", NEW x \in outcome.reached,
                      OneReading(outcome.meant.entry.name),
                      outcome.meant.from \subseteq outcome.live
                        \/ outcome.live \subseteq outcome.meant.from
               PROVE  Same(x, outcome.meant.entry)
    BY DEF NamesKeepTheirMeaning
  <2>1. /\ outcome.live \in SUBSET Endpoints /\ ~Collides(outcome.live)
        /\ outcome.meant.from \in SUBSET Endpoints /\ ~Collides(outcome.meant.from)
        /\ outcome.meant.entry \in Entries(outcome.meant.from)
        /\ x \in Entries(outcome.live) /\ x.name = outcome.meant.entry.name
    BY DEF Told
  <2>2. CASE outcome.meant.from \subseteq outcome.live
    BY <2>1, <2>2, MeaningGrows DEF Same
  <2>3. CASE outcome.live \subseteq outcome.meant.from
    <3>1. OneReading(x.name)
      BY <2>1
    <3> QED
      BY <2>1, <2>3, <3>1, MeaningGrows DEF Same
  <2> QED BY <2>2, <2>3
<1> QED BY <1>1, ToldInit, ToldNext, PTL DEF Spec

\* A call to a memory source goes to the route its tools were listed from, or to
\* none, while routes only come or only go, however many share a name.
THEOREM SourcesAreStable ==
  Spec => []SourcesKeepTheirRoute
<1>1. Told => SourcesKeepTheirRoute
  <2> SUFFICES ASSUME Told, outcome.kind = "routed",
                      outcome.meant.from \subseteq outcome.live
                        \/ outcome.live \subseteq outcome.meant.from
               PROVE  outcome.reached = {outcome.meant.owner}
    BY DEF SourcesKeepTheirRoute
  <2>1. /\ TransportForRoute(outcome.meant.source, outcome.meant.from) = {outcome.meant.owner}
        /\ outcome.reached = TransportForRoute(outcome.meant.source, outcome.live)
        /\ outcome.reached # {}
    BY DEF Told
  <2> QED BY <2>1 DEF TransportForRoute
<1> QED BY <1>1, ToldInit, ToldNext, PTL DEF Spec

\* ResolveTools denies a tool the client was told of only if its route was not
\* discovered, or all routes answered and what they offer gives it another name.
THEOREM DeniedToolsWereRenamed == Spec => []OnlyRenamedIsDenied
<1>1. Told => OnlyRenamedIsDenied
  <2> DEFINE k == outcome.meant
  <2> SUFFICES ASSUME Told, outcome.kind = "denied", k.entry.owner \in outcome.asked,
                      Duplicated(k.entry.tool, outcome.live) = Duplicated(k.entry.tool, k.from)
               PROVE  FALSE
    BY Zenon DEF OnlyRenamedIsDenied
  <2>1. /\ outcome.live = outcome.asked /\ outcome.live \in SUBSET Endpoints
        /\ k.from \in SUBSET Endpoints /\ k.entry \in Entries(k.from)
        /\ \A x \in Entries(outcome.live) : x.name # k.entry.name
    BY DEF Told
  <2>2. /\ k.entry.tool \in Tools /\ k.entry.tool \in Offers[k.entry.owner]
        /\ k.entry.name = Canonical(k.entry.owner, k.entry.tool, k.from)
    BY <2>1, EntryOf
  <2>3. k.entry.name = Canonical(k.entry.owner, k.entry.tool, outcome.live)
    BY <2>2 DEF Canonical
  <2>4. [owner |-> k.entry.owner, tool |-> k.entry.tool, name |-> k.entry.name]
          \in Entries(outcome.live)
    BY <2>1, <2>2, <2>3, EntryFor
  <2> QED
    BY <2>1, <2>4
<1> QED BY <1>1, ToldInit, ToldNext, PTL DEF Spec

----------------------------------------------------------------------------
(***************************************************************************)
(* Type correctness.                                                       *)
(***************************************************************************)

\* Between requests nothing is asked.
Quiet == request = NoRequest => asked = {} /\ answered = {} /\ polled = 0

CatalogInv == TypeOK /\ Quiet

Sent == [kind : {"sent", "denied", "unavailable", "error"}, asked : SUBSET Endpoints,
         live : SUBSET Endpoints, meant : Known, reached : SUBSET Entry]
Routed == [kind : {"routed", "no_route"}, live : SUBSET Endpoints, meant : Listing,
           reached : SUBSET Endpoints]

LEMMA EntriesAreTyped ==
  ASSUME NEW live \in SUBSET Endpoints
  PROVE  Entries(live) \subseteq Entry
<1> SUFFICES ASSUME NEW x \in Entries(live) PROVE x \in Entry
  OBVIOUS
<1>1. /\ x.owner \in Endpoints /\ x.tool \in Tools
      /\ x.name = Canonical(x.owner, x.tool, live)
      /\ x = [owner |-> x.owner, tool |-> x.tool, name |-> x.name]
  BY EntryOf
<1>2. x.name \in Tools \cup {Qualified(e, t) : e \in Endpoints, t \in Tools}
  BY <1>1 DEF Canonical
<1> QED
  BY <1>1, <1>2 DEF Entry

LEMMA CatalogInit == Init => CatalogInv
BY SizeAssumption DEF Init, CatalogInv, TypeOK, Quiet, NoRequest

LEMMA CatalogNext == CatalogInv /\ [Next]_vars => CatalogInv'
<1> SUFFICES ASSUME CatalogInv, [Next]_vars PROVE CatalogInv'
  OBVIOUS
<1> USE DEF CatalogInv
<1>0. NoRequest.kind = "none" /\ (request = NoRequest <=> request.kind = "none")
  BY DEF TypeOK, NoRequest
<1>1. ASSUME NEW r, Begin(r), r \in {[kind |-> "list"]} \cup [kind : {"call"}, entry : Known]
      PROVE  CatalogInv'
  <2>1. /\ request' = r /\ asked' \subseteq Endpoints /\ outcome' = NoRequest
        /\ answered = {} /\ UNCHANGED <<answered, polled, known, listed>>
    BY <1>1 DEF Begin, Quiet
  <2>2. r # NoRequest
    BY <1>1 DEF NoRequest
  <2> QED
    BY <1>0, <1>1, <2>1, <2>2 DEF TypeOK, Quiet
<1>2. CASE BeginList
  BY <1>1, <1>2 DEF BeginList
<1>3. CASE BeginCall
  <2>1. PICK k \in known : Begin([kind |-> "call", entry |-> k])
    BY <1>3 DEF BeginCall
  <2>2. [kind |-> "call", entry |-> k] \in [kind : {"call"}, entry : Known]
    BY DEF TypeOK
  <2> QED
    BY <1>1, <2>1, <2>2
<1>4. CASE Poll
  BY <1>4, SizeAssumption DEF Poll, TypeOK, Quiet
<1>5. CASE EndList
  <2>1. \A x \in Entries(answered) : [entry |-> x, from |-> answered] \in Known
    BY EntriesAreTyped DEF TypeOK, Known
  <2>2. known' \subseteq Known
    BY <1>5, <2>1 DEF EndList, TypeOK
  <2> QED
    BY <1>5, <2>2, SizeAssumption DEF EndList, End, TypeOK, Quiet
<1>6. CASE EndCall
  <2>1. request.entry \in Known /\ answered \in SUBSET Endpoints /\ asked \in SUBSET Endpoints
    BY <1>6, <1>0 DEF EndCall, TypeOK, NoRequest
  <2>2. Entries(answered) \in SUBSET Entry
    BY <2>1, EntriesAreTyped
  <2>3. Refusal \in {"denied", "unavailable"}
    BY DEF Refusal
  <2>4. outcome' \in Sent
    BY <1>6, <2>1, <2>2, <2>3 DEF EndCall, Sent
  <2> QED
    BY <1>6, <2>4, SizeAssumption DEF EndCall, End, TypeOK, Quiet, Sent
<1>7. CASE MemoryList
  <2>1. listed' \subseteq Listing
    <3>1. PICK s \in Sources, found \in SUBSET Endpoints :
            \E e \in TransportForRoute(s, found) :
              listed' = {k \in listed : k.source # s} \cup {[source |-> s, owner |-> e, from |-> found]}
      BY <1>7 DEF MemoryList
    <3>2. PICK e \in TransportForRoute(s, found) :
            listed' = {k \in listed : k.source # s} \cup {[source |-> s, owner |-> e, from |-> found]}
      BY <3>1
    <3>3. [source |-> s, owner |-> e, from |-> found] \in Listing
      BY DEF TransportForRoute, Listing
    <3> QED
      BY <3>2, <3>3 DEF TypeOK
  <2> QED
    BY <1>7, <2>1 DEF MemoryList, TypeOK, Quiet
<1>8. CASE MemoryCall
  <2>1. PICK k \in listed, found \in SUBSET Endpoints :
          outcome' = [kind |-> IF TransportForRoute(k.source, found) = {} THEN "no_route" ELSE "routed",
                      live |-> found, meant |-> k, reached |-> TransportForRoute(k.source, found)]
    BY <1>8 DEF MemoryCall
  <2>2. TransportForRoute(k.source, found) \in SUBSET Endpoints /\ k \in Listing
    BY DEF TransportForRoute, TypeOK
  <2>3. outcome' \in Routed
    BY <2>1, <2>2 DEF Routed
  <2> QED
    BY <1>8, <2>3 DEF MemoryCall, TypeOK, Quiet, Routed
<1>9. CASE UNCHANGED vars
  BY <1>9 DEF vars, TypeOK, Quiet
<1> QED
  BY <1>2, <1>3, <1>4, <1>5, <1>6, <1>7, <1>8, <1>9 DEF Next

\* Type correctness of the catalog of shared_mcp/runtime.go, whatever the routes
\* and their tools are; only routes that were asked have answered.
THEOREM CatalogTypeCorrect == Spec => []TypeOK
<1>1. CatalogInv => TypeOK
  BY DEF CatalogInv
<1> QED
  BY <1>1, CatalogInit, CatalogNext, PTL DEF Spec
=============================================================================
