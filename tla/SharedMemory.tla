---------------------------- MODULE SharedMemory ----------------------------
(***************************************************************************)
(* The shared memory (shared_memory/runtime.go): sources that are upstream *)
(* MCP servers, each found by the name of its route when it is needed.  A  *)
(* request goes to one source, or to all of them one after the other, and  *)
(* an outage of one does not keep it from the next.                        *)
(*                                                                         *)
(* A message that was sent may be carried out at any later time, or never. *)
(* Which upstream a route's name leads to is the subject of ToolCatalog.   *)
(***************************************************************************)
EXTENDS Integers, Sequences

CONSTANT Sources   \* the names of the sources, in their order

SourceNames == {Sources[i] : i \in DOMAIN Sources}

ASSUME SourcesAssumption ==
  /\ Sources \in Seq(SourceNames) \ {<<>>}
  /\ \A i, j \in DOMAIN Sources : Sources[i] = Sources[j] => i = j

VARIABLES
  asking,   \* the request under way and how each source answered it
  wire,     \* sources to which its tools/call is on the way
  ran       \* sources that carried it out

memoryVars == <<asking, wire, ran>>

NoAsking == [at |-> "none"]
Untold == [s \in SourceNames |-> "none"]

MemoryInit ==
  /\ asking = NoAsking
  /\ wire = {}
  /\ ran = {}

\* kind is "search", "call" or "list"; wanted are the sources it goes to.
AskMemory(kind, wanted) ==
  /\ asking' = [at |-> "route", kind |-> kind, todo |-> wanted, results |-> Untold]
  /\ wire' = {}
  /\ ran' = {}

Current == Head(asking.todo)
Waits(place) == asking.at = place

\* Mutant of EndSource: the loop goes round once more.
EndSourceLate(outcome) ==
  asking' = [asking EXCEPT !.at = IF Len(asking.todo) = 0 THEN "done" ELSE "route",
                           !.todo = Tail(@),
                           !.results = [@ EXCEPT ![Current] = outcome]]

\* The current source's part ends, and the next one's begins.
EndSource(outcome) ==
  asking' = [asking EXCEPT !.at = IF Len(asking.todo) = 1 THEN "done" ELSE "route",
                           !.todo = Tail(@),
                           !.results = [@ EXCEPT ![Current] = outcome]]

GoOn(place) == asking' = [asking EXCEPT !.at = place] /\ UNCHANGED <<wire, ran>>

\* routeTransport.transport: memory_unavailable when there is no such route.
FindRoute ==
  /\ Waits("route")
  /\ GoOn("connect") \/ (EndSource("unavailable") /\ UNCHANGED <<wire, ran>>)

\* ListTools of a source, which has tools, or a session that cannot be had
\* (mcp_unavailable).
ListSource ==
  /\ Waits("connect")
  /\ \/ asking.kind = "list" /\ EndSource("ok")
     \/ EndSource("unavailable")
  /\ UNCHANGED <<wire, ran>>

\* CallTool once the session is there.
SendMemory ==
  /\ Waits("connect")
  /\ asking.kind # "list"
  /\ asking' = [asking EXCEPT !.at = "sent"]
  /\ wire' = wire \cup {Current}
  /\ UNCHANGED ran

\* The upstream carries a message out, or it is lost.
SourceRuns(s) ==
  /\ s \in wire
  /\ wire' = wire \ {s}
  /\ ran' \in {ran, ran \cup {s}}
  /\ UNCHANGED asking

MemoryReturns ==
  /\ Waits("sent")
  /\ Current \in ran
  /\ EndSource("ok")
  /\ UNCHANGED <<wire, ran>>

\* Mutants of MemoryErrs: a lost answer counts as a source that was not there,
\* and a call without a timeout only errs when the upstream has dealt with it.
MemoryErrsUnavailable == Waits("sent") /\ EndSource("unavailable") /\ UNCHANGED <<wire, ran>>
MemoryErrsAnswered ==
  Waits("sent") /\ Current \in ran /\ EndSource("unknown") /\ UNCHANGED <<wire, ran>>

\* The session breaks or withTimeout's time is over: delivery_unknown.
MemoryErrs == Waits("sent") /\ EndSource("unknown") /\ UNCHANGED <<wire, ran>>

MemoryStep == FindRoute \/ ListSource \/ SendMemory \/ MemoryReturns \/ MemoryErrs

----------------------------------------------------------------------------
Outcomes == {"none", "ok", "unavailable", "unknown"}
Asking == [at : {"route", "connect", "sent", "done"}, kind : {"search", "call", "list"},
           todo : Seq(SourceNames), results : [SourceNames -> Outcomes]]

\* Type correctness; the loop ends with the last source.
MemoryTypeOK ==
  /\ asking \in {NoAsking} \cup Asking
  /\ ~Waits("none") => (Waits("done") <=> asking.todo = <<>>)
  /\ wire \subseteq SourceNames
  /\ ran \subseteq SourceNames

\* What the client is told of a source is true: one that is unavailable has not
\* been sent the call and never carries it out, one that is ok has carried it
\* out.
MemoryIsHonest ==
  ~Waits("none") =>
    \A s \in SourceNames :
      /\ asking.results[s] = "unavailable" => s \notin wire \cup ran
      /\ asking.results[s] = "ok" /\ asking.kind # "list" => s \in ran
=============================================================================
