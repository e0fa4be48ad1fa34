--------------------------- MODULE RouteAndRecall ---------------------------
(***************************************************************************)
(* The Bridge's front (server/app.go, server/adapters.go) over the surface *)
(* that was built at start-up, the skill catalog and the shared memory:    *)
(* the tools of these two modules, among them route_and_recall, which      *)
(* looks for skills and then, if it is asked to, for memories; and the     *)
(* tools that reach a memory source as they reach any upstream.            *)
(*                                                                         *)
(* Tool calls share nothing that they write, so one at a time shows what   *)
(* each can meet.  Arguments are abstracted to whether they are valid;     *)
(* those of the other modules' tools are the subject of other modules.     *)
(***************************************************************************)
EXTENDS Surface, Skills, SharedMemory

MemoryTools == {"memory_search", "memory_list", "memory_call"}

\* Those that pass a call on to any upstream tool, a memory source's included.
ForwardTools == {"mcp_call", "accelerator"}

\* The built-in adapter of the memory brings these tools (contract/tools.go).
ASSUME MemoryAssumption ==
  \E i \in DOMAIN Defaults :
    Defaults[i].id = "shared_memory" /\ MemoryTools \subseteq ToSet(Defaults[i].tools)

VARIABLE front   \* the tool call under way, its arguments and its answer

frontVars == <<surfaceVars, skillsVars, memoryVars, front>>

NoCall == [at |-> "idle", tool |-> "none", include |-> FALSE, signal |-> FALSE, limited |-> FALSE,
           ok |-> FALSE, degraded |-> FALSE, attempted |-> FALSE]

FrontInit == SurfaceInit /\ SkillsInit /\ MemoryInit /\ front = NoCall

----------------------------------------------------------------------------
(***************************************************************************)
(* The client calls a tool that is served.                                 *)
(***************************************************************************)
Idle == front.at \in {"idle", "answered"} /\ surface = "ready"

\* A call begins, and the one before it is over.
Begin(tool) ==
  /\ Idle
  /\ tool \in served
  /\ front' = [NoCall EXCEPT !.at = "asked", !.tool = tool]
  /\ UNCHANGED surfaceVars

RestMemory == asking' = NoAsking /\ wire' = {} /\ ran' = {}
RestSkills == reading' = NoReading /\ walk' = NoWalk /\ UNCHANGED library

\* include_memory, a task with a memory signal (ShouldRecall), a valid memory_limit.
CallRouteAndRecall ==
  /\ Idle
  /\ "route_and_recall" \in served
  /\ \E include, signal, limited \in BOOLEAN :
       front' = [NoCall EXCEPT !.at = "asked", !.tool = "route_and_recall", !.include = include,
                               !.signal = signal, !.limited = limited]
  /\ UNCHANGED surfaceVars
  /\ AskSkills("route", 0)
  /\ RestMemory

CallSkills ==
  /\ \/ Begin("route") /\ AskSkills("route", 0)
     \/ Begin("skills_list") /\ AskSkills("list", 0)
     \/ \E n \in SkillNames : Begin("load_skill") /\ AskSkills("load", n)
     \/ \E n \in SkillNames : Begin("load_skill_resource") /\ AskSkills("resource", n)
  /\ RestMemory

\* A source by name, or "auto".
CallMemory ==
  /\ \E wanted \in {Sources} \cup {<<s>> : s \in SourceNames} :
       \/ Begin("memory_search") /\ AskMemory("search", wanted)
       \/ Len(wanted) = 1 /\ Begin("memory_call") /\ AskMemory("call", wanted)
       \/ Begin("memory_list") /\ AskMemory("list", wanted)
  /\ RestSkills

\* The upstream tool that is named is one of a source; which route it is found
\* on, and what the accelerator records, are the subject of other modules.
CallForward ==
  /\ \E tool \in ForwardTools, s \in SourceNames : Begin(tool) /\ AskMemory("call", <<s>>)
  /\ RestSkills

\* Arguments that are refused before anything is read or sent.
CallInvalid ==
  /\ \E tool \in served :
       /\ Idle
       /\ front' = [NoCall EXCEPT !.at = "answered", !.tool = tool]
  /\ RestSkills
  /\ RestMemory
  /\ UNCHANGED surfaceVars

----------------------------------------------------------------------------
(***************************************************************************)
(* The answers.                                                            *)
(***************************************************************************)
Reply(ok, degraded, attempted) ==
  front' = [front EXCEPT !.at = "answered", !.ok = ok, !.degraded = degraded,
                         !.attempted = attempted]

Composite == front.tool = "route_and_recall"

\* A call that is not the composite one passes on what it got.
AnswerSkills ==
  /\ front.at = "asked"
  /\ ~Composite
  /\ At("done")
  /\ Reply(reading.code = "ok", FALSE, FALSE)
  /\ UNCHANGED <<surfaceVars, skillsVars, memoryVars>>

SomeSource == \E s \in SourceNames : asking.results[s] = "ok"

AnswerMemory ==
  /\ front.at = "asked"
  /\ ~Composite
  /\ Waits("done")
  /\ Reply(SomeSource, FALSE, TRUE)
  /\ UNCHANGED <<surfaceVars, skillsVars, memoryVars>>

Outage == reading.code # "ok"

\* Mutants of Recalls: the module's own tools are disabled, not this way to it;
\* without skills there is nothing to recall for.
RecallsAnyway == front.include /\ front.signal
RecallsIfRouted == front.include /\ IsEnabled("shared_memory") /\ front.signal /\ ~Outage

Recalls == front.include /\ IsEnabled("shared_memory") /\ front.signal

\* routeAndRecall once the skills are routed; RecallIfNeeded's Search refuses an
\* invalid limit, which is put into the answer as if memory had failed.
AfterRouting ==
  /\ front.at = "asked"
  /\ Composite
  /\ At("done")
  /\ IF Recalls /\ front.limited
     THEN /\ AskMemory("search", Sources)
          /\ front' = [front EXCEPT !.at = "recalling"]
     ELSE /\ Reply(TRUE, Outage \/ Recalls, Recalls)
          /\ UNCHANGED memoryVars
  /\ UNCHANGED <<surfaceVars, skillsVars>>

\* Search is ok if one source was; its degraded_sources are no degraded flag.
AfterRecall ==
  /\ front.at = "recalling"
  /\ Waits("done")
  /\ Reply(TRUE, Outage \/ ~SomeSource, TRUE)
  /\ UNCHANGED <<surfaceVars, skillsVars, memoryVars>>

----------------------------------------------------------------------------
SkillsStand == UNCHANGED <<surfaceVars, memoryVars, front>>
MemoryStands == UNCHANGED <<surfaceVars, skillsVars, front>>

Calls == CallRouteAndRecall \/ CallSkills \/ CallMemory \/ CallForward \/ CallInvalid
External ==
  \/ (LibraryChanges \/ CliFails \/ CliAnswers) /\ SkillsStand
  \/ (\E s \in SourceNames : SourceRuns(s)) /\ MemoryStands

\* What the Bridge does by itself.
Bridge ==
  \/ SurfaceStep /\ UNCHANGED <<skillsVars, memoryVars, front>>
  \/ SkillsStep /\ SkillsStand
  \/ MemoryStep /\ MemoryStands
  \/ AnswerSkills \/ AnswerMemory \/ AfterRouting \/ AfterRecall

FrontNext == Calls \/ External \/ Bridge \/ (surface = "refused" /\ UNCHANGED frontVars)

FrontSpec == FrontInit /\ [][FrontNext]_frontVars

\* The Bridge goes on by itself, every wait for an upstream included, for it has
\* a timeout.  The Skills Manager's CLI is run without one and need not end.
FairFrontSpec == FrontSpec /\ WF_frontVars(Bridge)

----------------------------------------------------------------------------
(***************************************************************************)
(* Properties.                                                             *)
(***************************************************************************)
FrontShape ==
  front \in [at : {"idle", "asked", "recalling", "answered"}, tool : STRING \cup {"none"},
             include : BOOLEAN, signal : BOOLEAN, limited : BOOLEAN, ok : BOOLEAN,
             degraded : BOOLEAN, attempted : BOOLEAN]

\* Type correctness of the call and of what it asks of the memory.
FrontTypeOK == FrontShape /\ MemoryTypeOK

Answered == front.at = "answered"

\* An outage of the skills, or of a source, keeps no source from being asked;
\* and an answer that admits to no outage rests on one that did the search.
OutageIsIsolated ==
  /\ Answered /\ Composite /\ front.ok
  /\ front.include /\ front.signal /\ front.limited /\ IsEnabled("shared_memory")
  => /\ Waits("done") /\ \A s \in SourceNames : asking.results[s] # "none"
     /\ front.degraded \/ ran # {}

\* A message goes to a source only if the client asked for that: by a tool of
\* the memory, while that module is selected, by route_and_recall with
\* include_memory, under the same condition, or by one of the tools that reach
\* every upstream, for which the source is a route like any other.
MemoryIsAskedFor ==
  wire \cup ran # {} =>
    \/ front.tool \in ForwardTools
    \/ /\ IsEnabled("shared_memory")
       /\ front.tool \in MemoryTools \/ (Composite /\ front.include)

\* Every call is answered, provided that the Skills Manager's CLI always ends.
CallsAnswered == []<>~At("cli") => (front.at \in {"asked", "recalling"} ~> Answered)

\* "Invalid caller input still fails rather than being hidden as a degraded
\* success" (docs/bridge-v3.1-go-release-receipt.md:113).
InvalidInputFails ==
  Answered /\ Composite /\ front.attempted /\ ~front.limited => ~front.ok
=============================================================================
