------------------------ MODULE RouteAndRecall_proofs ------------------------
(***************************************************************************)
(* Proofs about RouteAndRecall, for any adapters, selections, skills and   *)
(* memory sources.                                                         *)
(***************************************************************************)
EXTENDS RouteAndRecall, TLAPS, FiniteSetTheorems

----------------------------------------------------------------------------
(***************************************************************************)
(* The surface.                                                            *)
(***************************************************************************)

\* What registration has established so far: the modules are the first of the
\* adapters, differ in ids and tools, and unless one was refused every tool is
\* bound to its module.
Registration ==
  /\ registered \in Seq(Adapters)
  /\ Len(registered) <= Len(adapters)
  /\ \A i \in 1 .. Len(registered) : registered[i] = adapters[i]
  /\ \A i, j \in 1 .. Len(registered) :
       i # j => /\ registered[i].id # registered[j].id
                /\ ToSet(registered[i].tools) \cap ToSet(registered[j].tools) = {}
  /\ surface # "refused" =>
       \A i \in 1 .. Len(registered) :
         \A t \in ToSet(registered[i].tools) : t \in DOMAIN bound /\ bound[t] = registered[i].id

Serving ==
  surface = "ready" =>
    /\ Len(registered) = Len(adapters)
    /\ ValidateSelection
    /\ served = ExpectedTools

SurfaceInv ==
  /\ adapters \in Seq(Adapters)
  /\ \A i \in DOMAIN Defaults : i \in 1 .. Len(adapters) /\ adapters[i] = Defaults[i]
  /\ selected \in SUBSET STRING
  /\ Registration
  /\ Serving

LEMMA SurfaceInitInv == SurfaceInit => SurfaceInv
<1> SUFFICES ASSUME SurfaceInit PROVE SurfaceInv
  OBVIOUS
<1>1. /\ adapters \in Seq(Adapters) /\ selected \in SUBSET STRING
      /\ \A i \in DOMAIN Defaults : i \in 1 .. Len(adapters) /\ adapters[i] = Defaults[i]
  <2>1. PICK s \in Startups : adapters = Defaults \o s.extras /\ selected = s.selected
    BY DEF SurfaceInit
  <2>2. Defaults \in Seq(Adapters) /\ s.extras \in Seq(Adapters) /\ s.selected \in SUBSET STRING
    BY SurfaceAssumption
  <2> QED
    BY <2>1, <2>2
<1>2. registered = <<>> /\ surface = "building"
  BY DEF SurfaceInit
<1>3. Registration
  BY <1>1, <1>2 DEF Registration
<1> QED
  BY <1>1, <1>2, <1>3 DEF SurfaceInv, Serving

\* Of an adapter that passes the checks, all operations are stored.
LEMMA AllStored ==
  ASSUME NEW a \in Adapters, WellFormed(a)
  PROVE  Stored(a) = ToSet(a.tools)
<1>1. a.tools \in Seq(STRING) /\ DOMAIN a.tools = 1 .. Len(a.tools) /\ Len(a.tools) \in Nat
  BY DEF Adapters
<1>2. ASSUME NEW i \in DOMAIN a.tools
      PROVE  a.tools[i] \in a.operations /\ \A j \in 1 .. i - 1 : a.tools[j] # a.tools[i]
  <2>1. a.tools[i] \in a.operations
    BY DEF WellFormed, ToSet
  <2>2. \A j \in 1 .. i - 1 : j \in DOMAIN a.tools /\ j # i
    BY <1>1
  <2>3. \A j \in DOMAIN a.tools : a.tools[j] = a.tools[i] => j = i
    BY DEF WellFormed, IsInjective
  <2> QED
    BY <2>1, <2>2, <2>3
<1>3. \A k \in DOMAIN a.tools : \A j \in 1 .. k : j \in DOMAIN a.tools
  BY <1>1
<1>4. {k \in DOMAIN a.tools : \A j \in 1 .. k :
          a.tools[j] \in a.operations /\ \A l \in 1 .. j - 1 : a.tools[l] # a.tools[j]} = DOMAIN a.tools
  BY <1>2, <1>3
<1> QED
  BY <1>4 DEF Stored, ToSet

LEMMA RegisterKeepsInv == SurfaceInv /\ RegisterNext => SurfaceInv'
<1> SUFFICES ASSUME SurfaceInv, RegisterNext PROVE SurfaceInv'
  OBVIOUS
<1> DEFINE n == Len(registered) + 1
           a == adapters[n]
<1>1. adapters' = adapters /\ selected' = selected /\ surface = "building"
  BY DEF RegisterNext
<1>2. CASE RefuseSurface
  <2>1. registered' = registered /\ surface' = "refused"
    BY <1>2 DEF RefuseSurface
  <2> QED
    BY <1>1, <2>1 DEF SurfaceInv, Registration, Serving
<1>3. CASE /\ WellFormed(a) /\ ~Collides(a)
           /\ bound' = [t \in Stored(a) \cup DOMAIN bound |-> IF t \in Stored(a) THEN a.id ELSE bound[t]]
           /\ registered' = Append(registered, a)
           /\ UNCHANGED <<surface, served>>
  <2>1. registered \in Seq(Adapters) /\ Len(registered) \in Nat /\ Len(registered) < Len(adapters)
        /\ Len(adapters) \in Nat
    BY DEF RegisterNext, SurfaceInv, Registration
  <2>2. a \in Adapters
    BY <2>1 DEF SurfaceInv
  <2>3. registered' \in Seq(Adapters) /\ Len(registered') = n
    BY <1>3, <2>1, <2>2
  <2>4. registered'[n] = a /\ \A i \in 1 .. Len(registered) : registered'[i] = registered[i]
    BY <1>3, <2>1, <2>2
  <2>5. \A i \in 1 .. n : i = n \/ i \in 1 .. Len(registered)
    BY <2>1
  <2>6. \A i \in 1 .. Len(registered) :
          registered[i].id # a.id /\ ToSet(registered[i].tools) \cap ToSet(a.tools) = {}
    <3> TAKE i \in 1 .. Len(registered)
    <3>1. registered[i] \in ToSet(registered)
      BY <2>1 DEF ToSet
    <3> QED
      BY <1>3, <3>1 DEF Collides
  <2>7. \A i, j \in 1 .. n :
          i # j => /\ registered'[i].id # registered'[j].id
                   /\ ToSet(registered'[i].tools) \cap ToSet(registered'[j].tools) = {}
    <3> TAKE i, j \in 1 .. n
    <3>1. CASE i = n /\ j \in 1 .. Len(registered)
      BY <3>1, <2>4, <2>6
    <3>2. CASE j = n /\ i \in 1 .. Len(registered)
      BY <3>2, <2>4, <2>6
    <3>3. CASE i \in 1 .. Len(registered) /\ j \in 1 .. Len(registered)
      BY <3>3, <2>4 DEF SurfaceInv, Registration
    <3> QED
      BY <2>5, <3>1, <3>2, <3>3
  <2>0. Stored(a) = ToSet(a.tools)
    BY <1>3, <2>2, AllStored
  <2>8. \A t : /\ t \in DOMAIN bound' <=> t \in ToSet(a.tools) \cup DOMAIN bound
               /\ t \in ToSet(a.tools) => bound'[t] = a.id
               /\ t \in DOMAIN bound \ ToSet(a.tools) => bound'[t] = bound[t]
    BY <1>3, <2>0
  <2>9. \A i \in 1 .. n :
          \A t \in ToSet(registered'[i].tools) : t \in DOMAIN bound' /\ bound'[t] = registered'[i].id
    <3> TAKE i \in 1 .. n
    <3>1. CASE i = n
      BY <3>1, <2>4, <2>8
    <3>2. CASE i \in 1 .. Len(registered)
      <4> TAKE t \in ToSet(registered'[i].tools)
      <4>1. t \in ToSet(registered[i].tools) /\ t \notin ToSet(a.tools)
        BY <3>2, <2>4, <2>6
      <4>2. t \in DOMAIN bound /\ bound[t] = registered[i].id
        BY <1>1, <3>2, <4>1 DEF SurfaceInv, Registration
      <4> QED
        BY <3>2, <4>1, <4>2, <2>4, <2>8
    <3> QED
      BY <2>5, <3>1, <3>2
  <2>10. \A i \in 1 .. n : registered'[i] = adapters[i]
    BY <2>4, <2>5 DEF SurfaceInv, Registration
  <2>11. Registration'
    <3>1. \A i \in 1 .. Len(registered') :
            \A t \in ToSet(registered'[i].tools) : t \in DOMAIN bound' /\ bound'[t] = registered'[i].id
      BY <2>3, <2>9
    <3>2. \A i, j \in 1 .. Len(registered') :
            i # j => /\ registered'[i].id # registered'[j].id
                     /\ ToSet(registered'[i].tools) \cap ToSet(registered'[j].tools) = {}
      BY <2>3, <2>7
    <3>3. Len(registered') <= Len(adapters')
      BY <1>1, <2>1, <2>3
    <3>4. \A i \in 1 .. Len(registered') : registered'[i] = adapters'[i]
      BY <1>1, <2>3, <2>10
    <3> QED
      BY <2>3, <3>1, <3>2, <3>3, <3>4 DEF Registration
  <2> QED
    BY <1>1, <1>3, <2>11 DEF SurfaceInv, Serving
<1> QED
  BY <1>2, <1>3 DEF RegisterNext

LEMMA ServeKeepsInv == SurfaceInv /\ ServeTools => SurfaceInv'
<1> SUFFICES ASSUME SurfaceInv, ServeTools PROVE SurfaceInv'
  OBVIOUS
<1>1. /\ adapters' = adapters /\ selected' = selected /\ registered' = registered
      /\ bound' = bound /\ surface # "refused"
  BY DEF ServeTools, RefuseSurface
<1>2. Registration'
  BY <1>1 DEF SurfaceInv, Registration
<1>3. ValidateSelection' <=> ValidateSelection
  BY <1>1 DEF ValidateSelection, Known, IsEnabled
<1>4. ExpectedTools' = ExpectedTools
  BY <1>1 DEF ExpectedTools, Enabled, Known, IsEnabled
<1>5. CASE surface' = "refused"
  BY <1>1, <1>2, <1>5 DEF SurfaceInv, Serving
<1>6. CASE /\ surface' = "ready" /\ ValidateSelection
           /\ served' = ExpectedTools
  BY <1>1, <1>2, <1>3, <1>4, <1>6 DEF SurfaceInv, Serving, ServeTools
<1> QED
  BY <1>5, <1>6 DEF ServeTools, RefuseSurface, ExpectedTools

LEMMA SurfaceStays == SurfaceInv /\ UNCHANGED surfaceVars => SurfaceInv'
<1> SUFFICES ASSUME SurfaceInv, UNCHANGED surfaceVars PROVE SurfaceInv'
  OBVIOUS
<1>1. /\ adapters' = adapters /\ selected' = selected /\ registered' = registered
      /\ bound' = bound /\ surface' = surface /\ served' = served
  BY DEF surfaceVars
<1>2. ValidateSelection' <=> ValidateSelection
  BY <1>1 DEF ValidateSelection, Known, IsEnabled
<1>3. ExpectedTools' = ExpectedTools
  BY <1>1 DEF ExpectedTools, Enabled, Known, IsEnabled
<1> QED
  BY <1>1, <1>2, <1>3 DEF SurfaceInv, Registration, Serving

\* Of a registered module, a tool is served if and only if the module is enabled.
LEMMA ServedByOwner ==
  ASSUME SurfaceInv, surface = "ready",
         NEW i \in 1 .. Len(registered), NEW t \in ToSet(registered[i].tools)
  PROVE  t \in served <=> IsEnabled(registered[i].id)
<1>1. registered[i] \in ToSet(registered)
  BY DEF ToSet, SurfaceInv, Registration
<1>2. served = ExpectedTools
  BY DEF SurfaceInv, Serving
<1>3. ASSUME IsEnabled(registered[i].id) PROVE t \in served
  BY <1>1, <1>2, <1>3 DEF ExpectedTools, Enabled
<1>4. ASSUME t \in served PROVE IsEnabled(registered[i].id)
  <2>1. PICK m \in ToSet(registered) : IsEnabled(m.id) /\ t \in ToSet(m.tools)
    BY <1>2, <1>4 DEF ExpectedTools, Enabled
  <2>2. PICK j \in 1 .. Len(registered) : m = registered[j]
    BY <2>1 DEF ToSet, SurfaceInv, Registration
  <2>3. i = j
    BY <2>1, <2>2 DEF SurfaceInv, Registration
  <2> QED
    BY <2>1, <2>2, <2>3
<1> QED
  BY <1>3, <1>4

LEMMA SoundSurface == SurfaceInv => SurfaceIsSound
<1> SUFFICES ASSUME SurfaceInv, surface = "ready" PROVE SurfaceIsSound
  BY DEF SurfaceIsSound
<1>1. \A m \in ToSet(registered) : \E i \in 1 .. Len(registered) : m = registered[i]
  BY DEF ToSet, SurfaceInv, Registration
<1>2. ASSUME NEW m \in ToSet(registered), NEW t \in ToSet(m.tools)
      PROVE  IF IsEnabled(m.id) THEN t \in served /\ bound[t] = m.id ELSE t \notin served
  <2>1. PICK i \in 1 .. Len(registered) : m = registered[i]
    BY <1>1
  <2>2. t \in served <=> IsEnabled(m.id)
    BY <2>1, ServedByOwner
  <2>3. bound[t] = m.id
    BY <2>1 DEF SurfaceInv, Registration
  <2> QED
    BY <2>2, <2>3
<1>3. ValidateSelection
  BY DEF SurfaceInv, Serving
<1>4. ASSUME NEW m \in Enabled, NEW d \in m.dependencies
      PROVE  d \in {k.id : k \in Enabled}
  <2>1. m \in ToSet(registered) /\ IsEnabled(m.id)
    BY DEF Enabled
  <2>2. d \in Known /\ IsEnabled(d)
    BY <1>3, <2>1 DEF ValidateSelection
  <2>3. PICK k \in ToSet(registered) : k.id = d
    BY <2>2 DEF Known
  <2>4. k \in Enabled
    BY <2>2, <2>3 DEF Enabled
  <2> QED
    BY <2>3, <2>4
<1>5. selected \subseteq Known
  BY <1>3 DEF ValidateSelection
<1> QED
  BY <1>2, <1>4, <1>5 DEF SurfaceIsSound

\* The memory's tools are served only if its module is enabled.
LEMMA MemoryToolsOfModule ==
  ASSUME SurfaceInv, surface = "ready", NEW t \in MemoryTools, t \in served
  PROVE  IsEnabled("shared_memory")
<1>1. PICK i \in DOMAIN Defaults :
        Defaults[i].id = "shared_memory" /\ MemoryTools \subseteq ToSet(Defaults[i].tools)
  BY MemoryAssumption
<1>2. i \in 1 .. Len(registered) /\ registered[i] = Defaults[i]
  BY DEF SurfaceInv, Registration, Serving
<1> QED
  BY <1>1, <1>2, ServedByOwner

\* Names of tools are strings.
LEMMA ServedAreNames == ASSUME SurfaceInv, surface = "ready" PROVE served \subseteq STRING
<1>1. served = UNION {ToSet(m.tools) : m \in Enabled}
  BY DEF SurfaceInv, Serving, ExpectedTools
<1>2. \A m \in Enabled : m \in Adapters
  BY DEF Enabled, ToSet, SurfaceInv, Registration
<1>3. \A m \in Enabled : ToSet(m.tools) \subseteq STRING
  BY <1>2 DEF Adapters, ToSet
<1> QED
  BY <1>1, <1>3

LEMMA FrontKeepsSurface == SurfaceInv /\ [FrontNext]_frontVars => SurfaceInv'
<1> SUFFICES ASSUME SurfaceInv, [FrontNext]_frontVars PROVE SurfaceInv'
  OBVIOUS
<1>1. CASE SurfaceStep
  BY <1>1, RegisterKeepsInv, ServeKeepsInv DEF SurfaceStep
<1>2. CASE UNCHANGED surfaceVars
  BY <1>2, SurfaceStays
<1>3. Calls => UNCHANGED surfaceVars
  BY DEF Calls, CallRouteAndRecall, CallSkills, CallMemory, CallForward, CallInvalid, Begin
<1>4. External => UNCHANGED surfaceVars
  BY DEF External, SkillsStand, MemoryStands
<1>5. Bridge => SurfaceStep \/ UNCHANGED surfaceVars
  BY DEF Bridge, SkillsStand, MemoryStands, AnswerSkills, AnswerMemory, AfterRouting, AfterRecall
<1>6. UNCHANGED frontVars => UNCHANGED surfaceVars
  BY DEF frontVars
<1> QED
  BY <1>1, <1>2, <1>3, <1>4, <1>5, <1>6 DEF FrontNext

----------------------------------------------------------------------------
(***************************************************************************)
(* The memory.                                                             *)
(***************************************************************************)

\* A source that is still to come has neither answered nor been sent anything;
\* only the first of them may have been.
Pending ==
  ~Waits("none") =>
    /\ \A i, j \in 1 .. Len(asking.todo) : asking.todo[i] = asking.todo[j] => i = j
    /\ \A i \in 1 .. Len(asking.todo) :
         /\ asking.results[asking.todo[i]] = "none"
         /\ i > 1 \/ ~Waits("sent") => asking.todo[i] \notin wire \cup ran

Silent == Waits("none") => wire = {} /\ ran = {}

MemoryInv == MemoryTypeOK /\ Pending /\ Silent /\ MemoryIsHonest

LEMMA AsksKeepInv ==
  ASSUME NEW kind \in {"search", "call", "list"}, NEW wanted \in Seq(SourceNames) \ {<<>>},
         \A i, j \in 1 .. Len(wanted) : wanted[i] = wanted[j] => i = j,
         AskMemory(kind, wanted)
  PROVE  MemoryInv'
<1>1. /\ asking' = [at |-> "route", kind |-> kind, todo |-> wanted, results |-> Untold]
      /\ wire' = {} /\ ran' = {}
  BY DEF AskMemory
<1>2. Untold \in [SourceNames -> Outcomes]
  BY DEF Untold, Outcomes
<1>3. asking' \in Asking
  BY <1>1, <1>2 DEF Asking
<1>4. MemoryTypeOK'
  BY <1>1, <1>3 DEF MemoryTypeOK, Waits
<1>5. \A i \in 1 .. Len(wanted) : wanted[i] \in SourceNames
  OBVIOUS
<1>6. Pending'
  BY <1>1, <1>5 DEF Pending, Waits, Untold
<1>7. Silent' /\ MemoryIsHonest'
  BY <1>1 DEF Silent, MemoryIsHonest, Waits, Untold
<1> QED
  BY <1>4, <1>6, <1>7 DEF MemoryInv

LEMMA RestKeepsInv == RestMemory => MemoryInv'
  BY DEF RestMemory, MemoryInv, MemoryTypeOK, Pending, Silent, MemoryIsHonest, Waits, NoAsking

LEMMA MemoryStays == MemoryInv /\ UNCHANGED memoryVars => MemoryInv'
  BY DEF memoryVars, MemoryInv, MemoryTypeOK, Pending, Silent, MemoryIsHonest, Waits

\* What the types say of a request that is under way.
LEMMA UnderWay ==
  ASSUME MemoryInv, ~Waits("none"), ~Waits("done")
  PROVE  /\ asking \in Asking
         /\ asking.todo \in Seq(SourceNames) /\ asking.todo # <<>>
         /\ Len(asking.todo) \in Nat /\ Len(asking.todo) > 0
         /\ Current = asking.todo[1] /\ Current \in SourceNames
<1>1. asking \in Asking
  BY DEF MemoryInv, MemoryTypeOK, NoAsking, Waits
<1>2. asking.todo \in Seq(SourceNames) /\ asking.todo # <<>>
  BY <1>1 DEF Asking, MemoryInv, MemoryTypeOK
<1> QED
  BY <1>1, <1>2 DEF Current

LEMMA GoOnKeepsInv ==
  ASSUME MemoryInv, ~Waits("none"), ~Waits("done"), ~Waits("sent"), GoOn("connect")
  PROVE  MemoryInv'
<1>1. asking' = [asking EXCEPT !.at = "connect"] /\ wire' = wire /\ ran' = ran
  BY DEF GoOn
<1>2. asking \in Asking
  BY UnderWay
<1>3. /\ asking' \in Asking /\ asking'.at = "connect" /\ asking'.todo = asking.todo
      /\ asking'.results = asking.results /\ asking'.kind = asking.kind
  BY <1>1, <1>2 DEF Asking
<1>4. MemoryTypeOK'
  BY <1>1, <1>3, UnderWay DEF MemoryTypeOK, Waits, MemoryInv
<1>5. Pending' /\ Silent' /\ MemoryIsHonest'
  BY <1>1, <1>3 DEF MemoryInv, Pending, Silent, MemoryIsHonest, Waits
<1> QED
  BY <1>4, <1>5 DEF MemoryInv

LEMMA TailFacts ==
  ASSUME NEW S, NEW q \in Seq(S), q # <<>>
  PROVE  /\ Len(Tail(q)) = Len(q) - 1
         /\ \A i \in 1 .. Len(q) - 1 : Tail(q)[i] = q[i + 1] /\ i + 1 \in 1 .. Len(q)
         /\ Tail(q) = <<>> <=> Len(q) = 1
<1>1. Len(q) \in Nat /\ Len(q) > 0 /\ Tail(q) \in Seq(S) /\ Len(Tail(q)) = Len(q) - 1
  OBVIOUS
<1>2. ASSUME NEW i \in 1 .. Len(q) - 1 PROVE Tail(q)[i] = q[i + 1] /\ i + 1 \in 1 .. Len(q)
  BY <1>1, <1>2
<1>3. Tail(q) = <<>> <=> Len(Tail(q)) = 0
  <2>1. Tail(q) = <<>> => Len(Tail(q)) = 0
    <3>1. Len(<<>>) = 0
      OBVIOUS
    <3> QED
      BY <3>1, Zenon
  <2>2. \A r \in Seq(S) : Len(r) = 0 => r = <<>>
    OBVIOUS
  <2> QED
    BY <1>1, <2>1, <2>2, Zenon
<1> QED
  BY <1>1, <1>2, <1>3

LEMMA EndKeepsInv ==
  ASSUME MemoryInv, ~Waits("none"), ~Waits("done"), NEW outcome \in Outcomes,
         EndSource(outcome), UNCHANGED <<wire, ran>>,
         outcome = "unavailable" => ~Waits("sent"),
         outcome = "ok" => asking.kind = "list" \/ Current \in ran
  PROVE  MemoryInv'
<1> DEFINE todo == asking.todo
<1>1. /\ asking \in Asking /\ todo \in Seq(SourceNames) /\ Len(todo) \in Nat /\ Len(todo) > 0
      /\ Current = todo[1] /\ Current \in SourceNames
  BY UnderWay
<1>2. /\ asking'.at = IF Len(todo) = 1 THEN "done" ELSE "route"
      /\ asking'.todo = Tail(todo)
      /\ asking'.results = [asking.results EXCEPT ![Current] = outcome]
      /\ asking'.kind = asking.kind
      /\ asking' \in Asking
  <2>1. Tail(todo) \in Seq(SourceNames)
    BY <1>1
  <2>2. asking.results \in [SourceNames -> Outcomes]
    BY <1>1 DEF Asking
  <2>3. [asking.results EXCEPT ![Current] = outcome] \in [SourceNames -> Outcomes]
    BY <1>1, <2>2
  <2> QED
    BY <1>1, <2>1, <2>3 DEF EndSource, Asking
<1>3. /\ Len(Tail(todo)) = Len(todo) - 1
      /\ \A i \in 1 .. Len(todo) - 1 : Tail(todo)[i] = todo[i + 1] /\ i + 1 \in 1 .. Len(todo)
      /\ Tail(todo) = <<>> <=> Len(todo) = 1
  <2>1. todo # <<>>
    BY UnderWay
  <2> QED
    BY <1>1, <2>1, TailFacts
<1>4. \A s \in SourceNames : asking'.results[s] = IF s = Current THEN outcome ELSE asking.results[s]
  BY <1>1, <1>2 DEF Asking
<1>5. /\ \A i, j \in 1 .. Len(todo) : todo[i] = todo[j] => i = j
      /\ \A i \in 1 .. Len(todo) : asking.results[todo[i]] = "none"
      /\ \A i \in 1 .. Len(todo) : i > 1 \/ ~Waits("sent") => todo[i] \notin wire \cup ran
  BY DEF MemoryInv, Pending
<1>6. MemoryTypeOK'
  BY <1>2, <1>3 DEF MemoryTypeOK, Waits, MemoryInv
<1>7. \A i, j \in 1 .. Len(todo) - 1 : Tail(todo)[i] = Tail(todo)[j] => i = j
  <2> SUFFICES ASSUME NEW i \in 1 .. Len(todo) - 1, NEW j \in 1 .. Len(todo) - 1,
                      Tail(todo)[i] = Tail(todo)[j]
               PROVE  i = j
    OBVIOUS
  <2>1. todo[i + 1] = todo[j + 1] /\ i + 1 \in 1 .. Len(todo) /\ j + 1 \in 1 .. Len(todo)
    BY <1>3
  <2>2. i + 1 = j + 1
    BY <1>5, <2>1
  <2> QED
    BY <2>2, <1>1
<1>8. \A i \in 1 .. Len(todo) - 1 :
        /\ asking'.results[Tail(todo)[i]] = "none"
        /\ Tail(todo)[i] \notin wire \cup ran
  <2> TAKE i \in 1 .. Len(todo) - 1
  <2>1. Tail(todo)[i] = todo[i + 1] /\ i + 1 \in 1 .. Len(todo) /\ i + 1 > 1
    BY <1>1, <1>3
  <2>2. todo[i + 1] # Current
    BY <1>1, <1>5, <2>1
  <2>3. todo[i + 1] \in SourceNames
    BY <1>1, <2>1
  <2> QED
    BY <1>4, <1>5, <2>1, <2>2, <2>3
<1>9. Pending'
  BY <1>2, <1>3, <1>7, <1>8 DEF Pending, Waits
<1>10. Silent'
  BY <1>2 DEF Silent, Waits
<1>11. MemoryIsHonest'
  <2> SUFFICES ASSUME NEW s \in SourceNames
               PROVE  /\ asking'.results[s] = "unavailable" => s \notin wire \cup ran
                      /\ asking'.results[s] = "ok" /\ asking.kind # "list" => s \in ran
    BY <1>2 DEF MemoryIsHonest
  <2>1. CASE s = Current
    BY <2>1, <1>1, <1>4, <1>5
  <2>2. CASE s # Current
    BY <2>2, <1>4 DEF MemoryInv, MemoryIsHonest
  <2> QED
    BY <2>1, <2>2
<1> QED
  BY <1>6, <1>9, <1>10, <1>11 DEF MemoryInv

LEMMA SendKeepsInv == MemoryInv /\ SendMemory => MemoryInv'
<1> SUFFICES ASSUME MemoryInv, SendMemory PROVE MemoryInv'
  OBVIOUS
<1>1. /\ Waits("connect") /\ asking' = [asking EXCEPT !.at = "sent"]
      /\ wire' = wire \cup {Current} /\ ran' = ran
  BY DEF SendMemory
<1>2. /\ asking \in Asking /\ asking.todo \in Seq(SourceNames) /\ asking.todo # <<>>
      /\ Len(asking.todo) \in Nat /\ Len(asking.todo) > 0
      /\ Current = asking.todo[1] /\ Current \in SourceNames
  BY <1>1, UnderWay DEF Waits
<1>3. /\ asking' \in Asking /\ asking'.at = "sent" /\ asking'.todo = asking.todo
      /\ asking'.results = asking.results /\ asking'.kind = asking.kind
  BY <1>1, <1>2 DEF Asking
<1>4. MemoryTypeOK'
  BY <1>1, <1>2, <1>3 DEF MemoryTypeOK, Waits, MemoryInv
<1>5. /\ \A i, j \in 1 .. Len(asking.todo) : asking.todo[i] = asking.todo[j] => i = j
      /\ \A i \in 1 .. Len(asking.todo) :
           asking.results[asking.todo[i]] = "none" /\ asking.todo[i] \notin wire \cup ran
  BY <1>1 DEF MemoryInv, Pending, Waits
<1>6. Pending'
  BY <1>1, <1>2, <1>3, <1>5 DEF Pending, Waits
<1>7. Silent'
  BY <1>3 DEF Silent, Waits
<1>8. asking.results[Current] = "none"
  BY <1>2, <1>5
<1>9. MemoryIsHonest'
  BY <1>1, <1>3, <1>8 DEF MemoryInv, MemoryIsHonest, Waits
<1> QED
  BY <1>4, <1>6, <1>7, <1>9 DEF MemoryInv

LEMMA RunsKeepInv == ASSUME MemoryInv, NEW s \in SourceNames, SourceRuns(s) PROVE MemoryInv'
<1>1. /\ s \in wire /\ wire' = wire \ {s} /\ ran' \in {ran, ran \cup {s}} /\ asking' = asking
  BY DEF SourceRuns
<1>2. wire' \cup ran' \subseteq wire \cup ran /\ ran \subseteq ran'
  BY <1>1
<1>3. MemoryTypeOK'
  BY <1>1 DEF MemoryInv, MemoryTypeOK, Waits
<1>4. Pending' /\ Silent'
  BY <1>1, <1>2 DEF MemoryInv, Pending, Silent, Waits
<1>5. MemoryIsHonest'
  BY <1>1, <1>2 DEF MemoryInv, MemoryIsHonest, Waits
<1> QED
  BY <1>3, <1>4, <1>5 DEF MemoryInv

LEMMA StepsKeepInv == MemoryInv /\ MemoryStep => MemoryInv'
<1> SUFFICES ASSUME MemoryInv, MemoryStep PROVE MemoryInv'
  OBVIOUS
<1>1. {"ok", "unavailable", "unknown"} \subseteq Outcomes
  BY DEF Outcomes
<1>2. CASE FindRoute
  BY <1>1, <1>2, GoOnKeepsInv, EndKeepsInv DEF FindRoute, Waits
<1>3. CASE ListSource
  BY <1>1, <1>3, EndKeepsInv DEF ListSource, Waits
<1>4. CASE SendMemory
  BY <1>4, SendKeepsInv
<1>5. CASE MemoryReturns
  BY <1>1, <1>5, EndKeepsInv DEF MemoryReturns, Waits
<1>6. CASE MemoryErrs
  BY <1>1, <1>6, EndKeepsInv DEF MemoryErrs, Waits
<1> QED
  BY <1>2, <1>3, <1>4, <1>5, <1>6 DEF MemoryStep

----------------------------------------------------------------------------
(***************************************************************************)
(* The calls.                                                              *)
(***************************************************************************)
\* The memory is asked during a call, by one that may.
MayAsk ==
  \/ front.tool \in ForwardTools
  \/ /\ IsEnabled("shared_memory")
     /\ front.tool \in MemoryTools \/ (Composite /\ front.include)

Asked ==
  /\ front.at # "idle" => surface = "ready"
  /\ ~Waits("none") => front.at # "idle" /\ MayAsk

Told(s) == asking.results[s] # "none"
Expected(s) == \E i \in 1 .. Len(asking.todo) : asking.todo[i] = s

\* While route_and_recall asks the memory, every source has answered or will be asked.
Recalling ==
  front.at = "recalling" =>
    /\ Composite /\ ~Waits("none") /\ asking.kind = "search"
    /\ \A s \in SourceNames : Told(s) \/ Expected(s)

Course == FrontShape /\ Asked /\ Recalling /\ OutageIsIsolated

FrontInv == SurfaceInv /\ MemoryInv /\ Course

LEMMA InitInv == FrontInit => FrontInv
<1> SUFFICES ASSUME FrontInit PROVE FrontInv
  OBVIOUS
<1>1. SurfaceInv
  BY SurfaceInitInv DEF FrontInit
<1>2. MemoryInv
  BY DEF FrontInit, MemoryInit, MemoryInv, MemoryTypeOK, Pending, Silent, MemoryIsHonest, Waits,
         NoAsking
<1>3. front = NoCall /\ asking = NoAsking
  BY DEF FrontInit, MemoryInit
<1>4. FrontShape
  <2>1. front = NoCall
    BY <1>3
  <2> QED
    BY <2>1 DEF FrontShape, NoCall
<1>5. front.at = "idle" /\ Waits("none")
  BY <1>3 DEF NoCall, NoAsking, Waits
<1>6. Course
  BY <1>4, <1>5 DEF Course, Asked, Recalling, OutageIsIsolated, Answered
<1> QED
  BY <1>1, <1>2, <1>6 DEF FrontInv

LEMMA AllSources ==
  /\ \A i, j \in 1 .. Len(Sources) : Sources[i] = Sources[j] => i = j
  /\ Sources \in Seq(SourceNames) \ {<<>>}
  /\ \A s \in SourceNames : \E i \in 1 .. Len(Sources) : Sources[i] = s
<1>1. Sources \in Seq(SourceNames) \ {<<>>} /\ DOMAIN Sources = 1 .. Len(Sources)
  BY SourcesAssumption
<1> QED
  BY <1>1, SourcesAssumption DEF SourceNames

LEMMA OneIsSome == ASSUME NEW S, NEW q \in Seq(S), Len(q) = 1 PROVE q # <<>>
  OBVIOUS

LEMMA FrontKeepsMemory == MemoryInv /\ [FrontNext]_frontVars => MemoryInv'
<1> SUFFICES ASSUME MemoryInv, [FrontNext]_frontVars PROVE MemoryInv'
  OBVIOUS
<1>1. CASE CallMemory \/ CallForward
  <2>1. PICK kind \in {"search", "call", "list"},
             wanted \in {Sources} \cup {<<s>> : s \in SourceNames} : AskMemory(kind, wanted)
    BY <1>1 DEF CallMemory, CallForward
  <2>2. /\ wanted \in Seq(SourceNames) \ {<<>>}
        /\ \A i, j \in 1 .. Len(wanted) : wanted[i] = wanted[j] => i = j
    <3>1. CASE wanted = Sources
      BY <3>1, AllSources
    <3>2. ASSUME NEW s \in SourceNames, wanted = <<s>>
          PROVE  /\ wanted \in Seq(SourceNames) \ {<<>>}
                 /\ \A i, j \in 1 .. Len(wanted) : wanted[i] = wanted[j] => i = j
      <4>1. Len(wanted) = 1 /\ wanted \in Seq(SourceNames)
        BY <3>2
      <4>2. wanted # <<>>
        BY <4>1, OneIsSome
      <4>3. \A i, j \in 1 .. Len(wanted) : wanted[i] = wanted[j] => i = j
        BY <4>1
      <4> QED
        BY <4>1, <4>2, <4>3
    <3> QED
      BY <3>1, <3>2
  <2> QED
    BY <2>1, <2>2, AsksKeepInv
<1>2. CASE RestMemory
  BY <1>2, RestKeepsInv
<1>3. CASE \E s \in SourceNames : SourceRuns(s)
  BY <1>3, RunsKeepInv
<1>4. CASE MemoryStep
  BY <1>4, StepsKeepInv
<1>5. CASE AfterRouting
  <2>1. CASE AskMemory("search", Sources)
    BY <2>1, AllSources, AsksKeepInv
  <2>2. CASE UNCHANGED memoryVars
    BY <2>2, MemoryStays
  <2> QED
    BY <1>5, <2>1, <2>2 DEF AfterRouting
<1>6. CASE UNCHANGED memoryVars
  BY <1>6, MemoryStays
<1>7. Calls => CallMemory \/ CallForward \/ RestMemory
  BY DEF Calls, CallRouteAndRecall, CallSkills, CallInvalid
<1>8. External => (\E s \in SourceNames : SourceRuns(s)) \/ UNCHANGED memoryVars
  BY DEF External, SkillsStand
<1>9. Bridge => MemoryStep \/ AfterRouting \/ UNCHANGED memoryVars
  BY DEF Bridge, SkillsStand, AnswerSkills, AnswerMemory, AfterRecall
<1>10. UNCHANGED frontVars => UNCHANGED memoryVars
  BY DEF frontVars
<1> QED
  BY <1>1, <1>2, <1>3, <1>4, <1>5, <1>6, <1>7, <1>8, <1>9, <1>10 DEF FrontNext

LEMMA SameModules == UNCHANGED surfaceVars => (IsEnabled("shared_memory"))' = IsEnabled("shared_memory")
  BY DEF surfaceVars, IsEnabled, Known

LEMMA CallsKeepCourse == FrontInv /\ Calls => Course'
<1> SUFFICES ASSUME FrontInv, Calls PROVE Course'
  OBVIOUS
<1>1. surface = "ready" /\ UNCHANGED surfaceVars
  BY DEF Calls, CallRouteAndRecall, CallSkills, CallMemory, CallForward, CallInvalid, Begin, Idle
<1>2. surface' = "ready" /\ (IsEnabled("shared_memory"))' = IsEnabled("shared_memory")
  BY <1>1, SameModules DEF surfaceVars
<1>3. served \subseteq STRING
  BY <1>1, ServedAreNames DEF FrontInv
<1>4. CASE CallRouteAndRecall \/ CallSkills \/ CallInvalid
  <2>1. RestMemory
    BY <1>4 DEF CallRouteAndRecall, CallSkills, CallInvalid
  <2>3. Waits("none")'
    BY <2>1 DEF RestMemory, Waits, NoAsking
  <2>2. FrontShape' /\ front'.at \in {"asked", "answered"} /\ front'.ok = FALSE
    BY <1>3, <1>4 DEF CallRouteAndRecall, CallSkills, CallInvalid, Begin, NoCall, FrontShape
  <2> QED
    BY <1>2, <2>3, <2>2 DEF Course, Asked, Recalling, OutageIsIsolated, Answered
<1>5. CASE CallMemory \/ CallForward
  <2>1. PICK t \in MemoryTools \cup ForwardTools : Begin(t)
    BY <1>5 DEF CallMemory, CallForward, MemoryTools
  <2>2. t \in served /\ (t \in MemoryTools => IsEnabled("shared_memory"))
    BY <1>1, <2>1, MemoryToolsOfModule DEF Begin, FrontInv
  <2>3. FrontShape' /\ front'.at = "asked" /\ front'.tool = t
    BY <1>3, <2>1, <2>2 DEF Begin, NoCall, FrontShape
  <2>4. MayAsk'
    BY <1>2, <2>1, <2>2, <2>3 DEF MayAsk
  <2> QED
    BY <1>2, <2>3, <2>4 DEF Course, Asked, Recalling, OutageIsIsolated, Answered
<1> QED
  BY <1>4, <1>5 DEF Calls

\* The steps of the library, of the request to it and of the surface.
LEMMA SkillsKeepCourse ==
  ASSUME FrontInv, \/ (LibraryChanges \/ CliFails \/ CliAnswers) /\ SkillsStand
                   \/ SkillsStep /\ SkillsStand
  PROVE  Course'
<1>1. /\ front' = front /\ asking' = asking /\ ran' = ran /\ surface' = surface
      /\ (IsEnabled("shared_memory"))' = IsEnabled("shared_memory")
  BY SameModules DEF SkillsStand, memoryVars, surfaceVars
<1> QED
  BY <1>1 DEF FrontInv, Course, FrontShape, Asked, MayAsk, Recalling, OutageIsIsolated, Answered,
              Waits, Composite, Told, Expected

LEMMA RunsKeepCourse ==
  ASSUME FrontInv, NEW s \in SourceNames, SourceRuns(s), MemoryStands
  PROVE  Course'
<1>1. /\ front' = front /\ asking' = asking /\ surface' = surface /\ ran \subseteq ran'
      /\ (IsEnabled("shared_memory"))' = IsEnabled("shared_memory")
  BY SameModules DEF MemoryStands, SourceRuns, surfaceVars
<1> QED
  BY <1>1 DEF FrontInv, Course, FrontShape, Asked, MayAsk, Recalling, OutageIsIsolated, Answered,
              Waits, Composite, Told, Expected

\* Before the surface is built nothing is called.
LEMMA SurfaceKeepsCourse ==
  ASSUME FrontInv, SurfaceStep, UNCHANGED <<skillsVars, memoryVars, front>>
  PROVE  Course'
<1>1. surface = "building" /\ front' = front /\ asking' = asking
  BY DEF SurfaceStep, RegisterNext, ServeTools, memoryVars
<1>2. front.at = "idle" /\ Waits("none")
  BY <1>1 DEF FrontInv, Course, Asked
<1>3. front'.at = "idle" /\ Waits("none")'
  BY <1>1, <1>2 DEF Waits
<1> QED
  BY <1>1, <1>3 DEF FrontInv, Course, FrontShape, Asked, Recalling, OutageIsIsolated, Answered

\* A step of the memory's request leaves nothing out: a source is told, or still expected.
LEMMA StepsExpect ==
  ASSUME MemoryInv, MemoryStep, NEW s \in SourceNames, Told(s) \/ Expected(s)
  PROVE  (Told(s) \/ Expected(s))' /\ ~Waits("none") /\ ~Waits("none")' /\ ~Waits("done")
<1>1. ~Waits("none") /\ ~Waits("done")
  BY DEF MemoryStep, FindRoute, ListSource, SendMemory, MemoryReturns, MemoryErrs, Waits
<1>2. /\ asking \in Asking /\ asking.todo \in Seq(SourceNames) /\ asking.todo # <<>>
      /\ Len(asking.todo) \in Nat /\ Current = asking.todo[1] /\ Current \in SourceNames
  BY <1>1, UnderWay
<1>3. CASE \E place \in {"connect", "sent"} : asking' = [asking EXCEPT !.at = place]
  <2>1. asking'.at # "none" /\ asking'.todo = asking.todo /\ asking'.results = asking.results
    BY <1>2, <1>3 DEF Asking
  <2> QED
    BY <1>1, <2>1 DEF Told, Expected, Waits
<1>4. ASSUME NEW outcome \in {"ok", "unavailable", "unknown"}, EndSource(outcome)
      PROVE  (Told(s) \/ Expected(s))' /\ ~Waits("none")'
  <2>1. /\ asking'.at \in {"done", "route"} /\ asking'.todo = Tail(asking.todo)
        /\ asking'.results = [asking.results EXCEPT ![Current] = outcome]
    BY <1>2, <1>4 DEF EndSource, Asking
  <2>2. asking.results \in [SourceNames -> Outcomes]
    BY <1>2 DEF Asking
  <2>3. CASE s = Current
    BY <1>2, <2>1, <2>2, <2>3 DEF Told, Waits
  <2>4. CASE s # Current /\ Told(s)
    BY <2>1, <2>2, <2>4 DEF Told, Waits
  <2>5. CASE s # Current /\ Expected(s)
    <3>1. PICK i \in 1 .. Len(asking.todo) : asking.todo[i] = s
      BY <2>5 DEF Expected
    <3>2. i - 1 \in 1 .. Len(asking.todo) - 1 /\ (i - 1) + 1 = i
      BY <1>2, <2>5, <3>1
    <3>3. Tail(asking.todo)[i - 1] = s /\ Len(Tail(asking.todo)) = Len(asking.todo) - 1
      BY <1>2, <3>1, <3>2, TailFacts
    <3> QED
      BY <2>1, <3>2, <3>3 DEF Expected, Waits
  <2> QED
    BY <2>3, <2>4, <2>5
<1> QED
  BY <1>1, <1>3, <1>4 DEF MemoryStep, FindRoute, ListSource, SendMemory, MemoryReturns, MemoryErrs,
                          GoOn

LEMMA StepsKeepCourse ==
  ASSUME FrontInv, MemoryStep, MemoryStands
  PROVE  Course'
<1>1. /\ front' = front /\ surface' = surface
      /\ (IsEnabled("shared_memory"))' = IsEnabled("shared_memory")
  BY SameModules DEF MemoryStands, surfaceVars
<1>2. ~Waits("none") /\ ~Waits("done")
  BY DEF MemoryStep, FindRoute, ListSource, SendMemory, MemoryReturns, MemoryErrs, Waits
<1>3. FrontShape' /\ Asked'
  BY <1>1, <1>2 DEF FrontInv, Course, FrontShape, Asked, MayAsk, Composite
<1>4. Recalling'
  <2> SUFFICES ASSUME front'.at = "recalling" PROVE Recalling'
    BY DEF Recalling
  <2>1. Composite /\ asking.kind = "search" /\ \A s \in SourceNames : Told(s) \/ Expected(s)
    BY <1>1 DEF FrontInv, Course, Recalling
  <2>2. \A s \in SourceNames : (Told(s) \/ Expected(s))' /\ ~Waits("none")'
    BY <2>1, StepsExpect DEF FrontInv
  <2>3. SourceNames # {}
    BY AllSources DEF SourceNames
  <2>4. asking \in Asking
    BY <1>2 DEF FrontInv, MemoryInv, MemoryTypeOK, Waits, NoAsking
  <2>5. Composite' /\ asking'.kind = "search"
    BY <1>1, <2>1, <2>4
    DEF Composite, Asking, MemoryStep, FindRoute, ListSource, SendMemory, MemoryReturns, MemoryErrs,
        GoOn, EndSource
  <2> QED
    BY <2>2, <2>3, <2>5 DEF Recalling
<1>5. OutageIsIsolated'
  BY <1>1, <1>2 DEF FrontInv, Course, OutageIsIsolated, Answered, Composite
<1> QED
  BY <1>3, <1>4, <1>5 DEF Course

LEMMA AnswersKeepCourse ==
  ASSUME FrontInv, AnswerSkills \/ AnswerMemory \/ AfterRouting \/ AfterRecall
  PROVE  Course'
<1>1. surface' = surface /\ (IsEnabled("shared_memory"))' = IsEnabled("shared_memory")
  BY SameModules DEF AnswerSkills, AnswerMemory, AfterRouting, AfterRecall, surfaceVars
<1>2. FrontShape /\ Asked /\ Recalling
  BY DEF FrontInv, Course
<1>3. CASE AnswerSkills \/ AnswerMemory
  <2>1. front.at = "asked" /\ ~Composite /\ asking' = asking
    BY <1>3 DEF AnswerSkills, AnswerMemory, memoryVars
  <2>2. FrontShape' /\ front'.at = "answered" /\ front'.tool = front.tool
    BY <1>2, <1>3 DEF AnswerSkills, AnswerMemory, Reply, FrontShape, SomeSource
  <2>3. ~Composite' /\ Asked'
    BY <1>1, <1>2, <2>1, <2>2 DEF Composite, Asked, MayAsk, Waits
  <2> QED
    BY <2>2, <2>3 DEF Course, Recalling, OutageIsIsolated
<1>4. CASE AfterRouting /\ Recalls /\ front.limited
  <2>1. /\ front' = [front EXCEPT !.at = "recalling"] /\ Composite
        /\ AskMemory("search", Sources)
    BY <1>4 DEF AfterRouting
  <2>2. FrontShape' /\ front'.at = "recalling" /\ front'.tool = front.tool
        /\ front'.include = front.include
    BY <1>2, <2>1 DEF FrontShape
  <2>3. asking'.at = "route" /\ asking'.todo = Sources /\ asking'.kind = "search"
    BY <2>1 DEF AskMemory
  <2>4. Asked'
    BY <1>1, <1>2, <1>4, <2>2, <2>3 DEF Asked, MayAsk, Recalls, Composite, AfterRouting, Waits
  <2>5. Recalling'
    BY <1>1, <2>1, <2>2, <2>3, AllSources DEF Recalling, Composite, Waits, Expected
  <2> QED
    BY <2>2, <2>4, <2>5 DEF Course, OutageIsIsolated, Answered
<1>5. CASE AfterRouting /\ ~(Recalls /\ front.limited)
  <2>1. /\ Reply(TRUE, Outage \/ Recalls, Recalls) /\ Composite
        /\ front.at = "asked" /\ asking' = asking
    BY <1>5 DEF AfterRouting, memoryVars
  <2>2. /\ front'.at = "answered" /\ front'.tool = front.tool /\ front'.include = front.include
        /\ front'.signal = front.signal /\ front'.limited = front.limited
    BY <1>2, <2>1 DEF Reply, FrontShape
  <2>3. FrontShape'
    <3>1. (Outage \/ Recalls) \in BOOLEAN /\ Recalls \in BOOLEAN
      BY <1>2 DEF Recalls, Outage, IsEnabled, FrontShape
    <3> QED
      BY <1>2, <2>1, <3>1 DEF Reply, FrontShape
  <2>4. Asked' /\ Recalling'
    BY <1>1, <1>2, <2>1, <2>2 DEF Asked, MayAsk, Recalling, Composite, Waits
  <2>5. OutageIsIsolated'
    BY <1>1, <1>5, <2>2 DEF OutageIsIsolated, Recalls
  <2> QED
    BY <2>3, <2>4, <2>5 DEF Course
<1>6. CASE AfterRecall
  <2>1. /\ Reply(TRUE, Outage \/ ~SomeSource, TRUE) /\ Waits("done") /\ asking' = asking
        /\ ran' = ran /\ front.at = "recalling"
    BY <1>6 DEF AfterRecall, memoryVars
  <2>2. Composite /\ asking.kind = "search" /\ \A s \in SourceNames : Told(s) \/ Expected(s)
    BY <1>2, <2>1 DEF Recalling
  <2>3. /\ front'.at = "answered" /\ front'.tool = front.tool /\ front'.include = front.include
        /\ front'.degraded = (Outage \/ ~SomeSource)
    BY <1>2, <2>1 DEF Reply, FrontShape
  <2>4. FrontShape'
    BY <1>2, <2>1 DEF Reply, FrontShape, Outage, SomeSource
  <2>5. Asked' /\ Recalling'
    BY <1>1, <1>2, <2>1, <2>3 DEF Asked, MayAsk, Recalling, Composite, Waits
  <2>6. asking.todo = <<>> /\ MemoryIsHonest
    BY <2>1 DEF FrontInv, MemoryInv, MemoryTypeOK, Waits
  <2>7. \A s \in SourceNames : Told(s)
    BY <2>2, <2>6 DEF Expected
  <2>8. SomeSource => ran # {}
    BY <2>1, <2>2, <2>6 DEF SomeSource, MemoryIsHonest, Waits
  <2>9. OutageIsIsolated'
    BY <2>1, <2>3, <2>7, <2>8 DEF OutageIsIsolated, Waits, Told
  <2> QED
    BY <2>4, <2>5, <2>9 DEF Course
<1> QED
  BY <1>3, <1>4, <1>5, <1>6

LEMMA StillKeepsCourse == ASSUME FrontInv, UNCHANGED frontVars PROVE Course'
<1>1. /\ front' = front /\ asking' = asking /\ ran' = ran /\ surface' = surface
      /\ (IsEnabled("shared_memory"))' = IsEnabled("shared_memory")
  BY SameModules DEF frontVars, surfaceVars, memoryVars
<1> QED
  BY <1>1 DEF FrontInv, Course, FrontShape, Asked, MayAsk, Recalling, OutageIsIsolated, Answered,
              Waits, Composite, Told, Expected

LEMMA NextInv == FrontInv /\ [FrontNext]_frontVars => FrontInv'
<1> SUFFICES ASSUME FrontInv, [FrontNext]_frontVars PROVE FrontInv'
  OBVIOUS
<1>1. SurfaceInv' /\ MemoryInv'
  BY FrontKeepsSurface, FrontKeepsMemory DEF FrontInv
<1>2. Course'
  <2>1. CASE Calls
    BY <2>1, CallsKeepCourse
  <2>2. CASE External
    BY <2>2, SkillsKeepCourse, RunsKeepCourse DEF External
  <2>3. CASE Bridge
    BY <2>3, SurfaceKeepsCourse, SkillsKeepCourse, StepsKeepCourse, AnswersKeepCourse DEF Bridge
  <2>4. CASE UNCHANGED frontVars
    BY <2>4, StillKeepsCourse
  <2> QED
    BY <2>1, <2>2, <2>3, <2>4 DEF FrontNext
<1> QED
  BY <1>1, <1>2 DEF FrontInv

LEMMA Invariant == FrontSpec => []FrontInv
  BY InitInv, NextInv, PTL DEF FrontSpec

----------------------------------------------------------------------------
(***************************************************************************)
(* Theorems.                                                               *)
(***************************************************************************)

\* The call and the memory's request keep their types.
THEOREM FrontTypeCorrect == FrontSpec => []FrontTypeOK
<1>1. FrontInv => FrontTypeOK
  BY DEF FrontInv, Course, MemoryInv, FrontTypeOK
<1> QED
  BY <1>1, Invariant, PTL

\* BuildWithAdapters: whatever is served is served by its module, which is
\* enabled, with all that it depends on.
THEOREM SurfaceSound == FrontSpec => []SurfaceIsSound
<1>1. FrontInv => SurfaceIsSound
  BY SoundSurface DEF FrontInv
<1> QED
  BY <1>1, Invariant, PTL

\* Search and CallTool of the memory: what is told of a source is true.
THEOREM MemoryHonest == FrontSpec => []MemoryIsHonest
<1>1. FrontInv => MemoryIsHonest
  BY DEF FrontInv, MemoryInv
<1> QED
  BY <1>1, Invariant, PTL

\* The memory is reached only by the client's wish: through its own, enabled
\* module, by route_and_recall when that module is enabled and the client asked
\* for memory, or by a tool that reaches every upstream.
THEOREM MemoryOnlyIfAskedFor == FrontSpec => []MemoryIsAskedFor
<1>1. FrontInv => MemoryIsAskedFor
  BY DEF FrontInv, MemoryInv, Silent, Course, Asked, MayAsk, MemoryIsAskedFor
<1> QED
  BY <1>1, Invariant, PTL

\* routeAndRecall: no outage keeps a source from being asked, and an answer that
\* admits to none rests on a source that did the search.
THEOREM OutagesIsolated == FrontSpec => []OutageIsIsolated
<1>1. FrontInv => OutageIsIsolated
  BY DEF FrontInv, Course
<1> QED
  BY <1>1, Invariant, PTL

----------------------------------------------------------------------------
(***************************************************************************)
(* The skill catalog.                                                      *)
(***************************************************************************)

\* What a request has read is not older than the request and not newer than the
\* files; a hash is not older than the metadata it comes with, a text not older
\* than the hash.
Fresh(record, s) ==
  /\ record.meta \in Nat /\ record.hash \in Nat
  /\ reading.begun[s] <= record.meta /\ record.meta <= record.hash /\ record.hash <= version[s]

LibraryShape ==
  /\ enabled \in SUBSET Skills /\ readable \in SUBSET Skills
  /\ version \in [Skills -> Nat] /\ name \in [Skills -> Nat]

ReadSoFar ==
  reading.at \in {"cli", "text", "hash", "file", "done"} =>
    reading.begun \in [Skills -> Nat] /\ \A s \in Skills : reading.begun[s] <= version[s]

RecordsAreFresh ==
  reading.at \in {"text", "hash", "file", "done"} =>
    /\ DOMAIN reading.records \in SUBSET Skills
    /\ \A s \in DOMAIN reading.records : Fresh(reading.records[s], s)

Underway ==
  /\ reading.at \in {"none", "cli", "text", "hash", "file", "done"}
  /\ reading.at = "text" => reading.todo \in SUBSET Skills
  /\ reading.at = "hash" =>
       /\ reading.current \in Skills /\ reading.todo \in SUBSET Skills /\ reading.meta \in Nat
       /\ reading.begun[reading.current] <= reading.meta
       /\ reading.meta <= version[reading.current]
  /\ reading.at = "file" => \E s : DOMAIN reading.records = {s}
  /\ reading.at = "done" =>
       \A s \in DOMAIN reading.records, t \in reading.text :
         t \in Nat /\ reading.records[s].hash <= t

ReadingInv == LibraryShape /\ ReadSoFar /\ RecordsAreFresh /\ Underway

LEMMA ReadingInit == SkillsInit => ReadingInv
<1> SUFFICES ASSUME SkillsInit PROVE ReadingInv
  OBVIOUS
<1>1. name \in [Skills -> Nat]
  BY CountAssumption, NamesAssumption DEF SkillsInit, SkillNames
<1>2. LibraryShape
  BY <1>1 DEF SkillsInit, LibraryShape
<1> QED
  BY <1>2 DEF SkillsInit, ReadingInv, ReadSoFar, RecordsAreFresh, Underway, NoReading

LEMMA RestKeepsReading ==
  ASSUME ReadingInv, UNCHANGED library, reading' = NoReading
  PROVE  ReadingInv'
BY DEF ReadingInv, LibraryShape, ReadSoFar, RecordsAreFresh, Underway, NoReading, library

LEMMA AsksKeepReading ==
  ASSUME ReadingInv, NEW kind, NEW wanted, AskSkills(kind, wanted)
  PROVE  ReadingInv'
<1>1. /\ reading' = [at |-> "cli", kind |-> kind, wanted |-> wanted, begun |-> version,
                     stayed |-> Listed]
      /\ UNCHANGED <<enabled, readable, version, name>>
  BY DEF AskSkills, library
<1> QED
  BY <1>1 DEF ReadingInv, LibraryShape, ReadSoFar, RecordsAreFresh, Underway

\* Files are only ever edited: what was read of one does not become newer than it.
LEMMA ChangesKeepReading ==
  ASSUME ReadingInv, LibraryChanges
  PROVE  ReadingInv'
<1>1. PICK stayed : reading' = [reading EXCEPT !.stayed = stayed]
  BY DEF LibraryChanges, Enable, Disable, Delete, Edit, Change
<1>2. LibraryShape' /\ \A s \in Skills : version[s] <= version'[s]
  <2>1. PICK s \in Skills : Enable(s) \/ Disable(s) \/ Delete(s) \/ Edit(s)
    BY DEF LibraryChanges
  <2>2. /\ enabled' \in {enabled, enabled \cup {s}, enabled \ {s}}
        /\ readable' \in {readable, readable \cup {s}, readable \ {s}}
        /\ version' \in {version, [version EXCEPT ![s] = @ + 1]}
        /\ name' = name \/ \E n \in SkillNames : name' = [name EXCEPT ![s] = n]
    BY <2>1 DEF Enable, Disable, Delete, Edit, Change
  <2>3. version[s] \in Nat /\ SkillNames \subseteq Nat
    BY CountAssumption DEF ReadingInv, LibraryShape, SkillNames
  <2> QED
    BY <2>2, <2>3 DEF ReadingInv, LibraryShape
<1>3. \A s \in Skills : version[s] \in Nat /\ version'[s] \in Nat
  BY <1>2 DEF ReadingInv, LibraryShape
<1>4. ReadSoFar'
  BY <1>1, <1>2, <1>3 DEF ReadingInv, ReadSoFar
<1>5. RecordsAreFresh'
  BY <1>1, <1>2, <1>3 DEF ReadingInv, RecordsAreFresh, Fresh
<1>6. Underway'
  BY <1>1, <1>2, <1>3 DEF ReadingInv, Underway
<1> QED
  BY <1>2, <1>4, <1>5, <1>6 DEF ReadingInv

\* A request ends with some of the records it has, and with a text that is not
\* older than any of their hashes.
LEMMA DoneKeepsReading ==
  ASSUME ReadingInv, NEW code, NEW records, NEW text, Done(code, records, text),
         ~At("none"),
         DOMAIN records \in SUBSET Skills,
         \A s \in DOMAIN records : Fresh(records[s], s) /\ \A t \in text : t \in Nat /\ records[s].hash <= t
  PROVE  ReadingInv'
<1>1. /\ reading' = [at |-> "done", kind |-> reading.kind, wanted |-> reading.wanted,
                     begun |-> reading.begun, stayed |-> reading.stayed,
                     code |-> code, records |-> records, text |-> text]
      /\ UNCHANGED <<enabled, readable, version, name>>
  BY DEF Done, library
<1>2. LibraryShape'
  BY <1>1 DEF ReadingInv, LibraryShape
<1>3. ReadSoFar'
  BY <1>1 DEF ReadingInv, ReadSoFar, Underway, At
<1>4. RecordsAreFresh'
  BY <1>1 DEF RecordsAreFresh, Fresh
<1>5. Underway'
  BY <1>1 DEF Underway
<1> QED
  BY <1>2, <1>3, <1>4, <1>5 DEF ReadingInv

LEMMA RefusalsKeepReading ==
  ASSUME ReadingInv, ~At("none"), NEW code, RefuseSkills(code)
  PROVE  ReadingInv'
<1>1. DOMAIN NoRecords = {}
  BY DEF NoRecords
<1> QED
  BY <1>1, DoneKeepsReading DEF RefuseSkills

LEMMA CollectingKeepsReading ==
  ASSUME ReadingInv, At("cli") \/ At("text") \/ At("hash"), UNCHANGED library,
         NEW todo \in SUBSET Skills, NEW records, reading' = Collecting(todo, records),
         DOMAIN records \in SUBSET Skills,
         \A s \in DOMAIN records : Fresh(records[s], s)
  PROVE  ReadingInv'
<1>1. /\ reading' = [at |-> "text", kind |-> reading.kind, wanted |-> reading.wanted,
                     begun |-> reading.begun, stayed |-> reading.stayed,
                     todo |-> todo, records |-> records]
      /\ UNCHANGED <<enabled, readable, version, name>>
  BY DEF Collecting, library
<1>2. LibraryShape'
  BY <1>1 DEF ReadingInv, LibraryShape
<1>3. ReadSoFar'
  BY <1>1 DEF ReadingInv, ReadSoFar, Underway, At
<1>4. RecordsAreFresh'
  BY <1>1 DEF RecordsAreFresh, Fresh
<1>5. Underway'
  BY <1>1 DEF Underway
<1> QED
  BY <1>2, <1>3, <1>4, <1>5 DEF ReadingInv

LEMMA StepsKeepReading ==
  ASSUME ReadingInv, CliFails \/ CliAnswers \/ SkillsStep
  PROVE  ReadingInv'
<1> USE DEF At
<1>1. CASE CliFails
  BY <1>1, RefusalsKeepReading DEF CliFails
<1>2. CASE CliAnswers
  <2>1. DOMAIN NoRecords = {} /\ enabled \in SUBSET Skills
    BY DEF NoRecords, ReadingInv, LibraryShape
  <2> QED
    BY <1>2, <2>1, CollectingKeepsReading DEF CliAnswers
<1>3. CASE ReadText
  <2>1. PICK s \in reading.todo :
          reading' = IF s \in readable
                     THEN [at |-> "hash", kind |-> reading.kind, wanted |-> reading.wanted,
                           begun |-> reading.begun, stayed |-> reading.stayed,
                           todo |-> reading.todo, records |-> reading.records,
                           current |-> s, meta |-> version[s], name |-> name[s]]
                     ELSE Collecting(reading.todo \ {s}, reading.records)
    BY <1>3 DEF ReadText
  <2>2. /\ At("text") /\ reading.todo \in SUBSET Skills /\ s \in Skills
        /\ UNCHANGED <<enabled, readable, version, name>>
    BY <1>3, <2>1 DEF ReadText, ReadingInv, Underway, library
  <2>3. CASE s \in readable
    <3>1. reading' = [at |-> "hash", kind |-> reading.kind, wanted |-> reading.wanted,
                      begun |-> reading.begun, stayed |-> reading.stayed,
                      todo |-> reading.todo, records |-> reading.records,
                      current |-> s, meta |-> version[s], name |-> name[s]]
      BY <2>1, <2>3
    <3>2. LibraryShape' /\ ReadSoFar' /\ RecordsAreFresh'
      BY <2>2, <3>1 DEF ReadingInv, LibraryShape, ReadSoFar, RecordsAreFresh, Fresh
    <3>3. version[s] \in Nat /\ reading.begun[s] <= version[s]
      BY <2>2 DEF ReadingInv, LibraryShape, ReadSoFar
    <3>4. Underway'
      BY <2>2, <3>1, <3>3 DEF Underway
    <3> QED
      BY <3>2, <3>4 DEF ReadingInv
  <2>4. CASE s \notin readable
    <3>1. /\ reading.todo \ {s} \in SUBSET Skills
          /\ DOMAIN reading.records \in SUBSET Skills
          /\ \A r \in DOMAIN reading.records : Fresh(reading.records[r], r)
      BY <2>2 DEF ReadingInv, RecordsAreFresh
    <3> QED
      BY <2>1, <2>2, <2>4, <3>1, CollectingKeepsReading DEF library
  <2> QED
    BY <2>3, <2>4
<1>4. CASE ReadHash
  <2>1. PICK s : s = reading.current
    OBVIOUS
  <2>2. PICK todo : todo = reading.todo \ {s}
    OBVIOUS
  <2>3. PICK records : records = [r \in DOMAIN reading.records \cup {s} |->
                                    IF r = s
                                    THEN [name |-> reading.name, meta |-> reading.meta, hash |-> version[s]]
                                    ELSE reading.records[r]]
    OBVIOUS
  <2>4. /\ At("hash") /\ s \in Skills /\ todo \in SUBSET Skills
        /\ reading.meta \in Nat /\ version[s] \in Nat
        /\ reading.begun[s] <= reading.meta /\ reading.meta <= version[s]
    BY <1>4, <2>1, <2>2 DEF ReadHash, ReadingInv, Underway, LibraryShape
  <2>5. /\ DOMAIN reading.records \in SUBSET Skills
        /\ \A r \in DOMAIN reading.records : Fresh(reading.records[r], r)
    BY <2>4 DEF ReadingInv, RecordsAreFresh
  <2>6. /\ DOMAIN records \in SUBSET Skills
        /\ \A r \in DOMAIN records : Fresh(records[r], r)
    BY <2>3, <2>4, <2>5 DEF Fresh
  <2>7. \/ reading' = Collecting(todo, records) /\ UNCHANGED library
        \/ RefuseSkills("skills_unavailable")
    BY <1>4, <2>1, <2>2, <2>3 DEF ReadHash
  <2> QED
    BY <2>4, <2>6, <2>7, CollectingKeepsReading, RefusalsKeepReading
<1>5. ASSUME NEW S, NEW text, Done("ok", Only(S), text), At("text") \/ At("file"),
             \A r \in S \cap DOMAIN reading.records, t \in text :
               t \in Nat /\ reading.records[r].hash <= t
      PROVE  ReadingInv'
  <2>1. PICK records : records = Only(S)
    OBVIOUS
  <2>2. /\ DOMAIN records \in SUBSET Skills
        /\ \A r \in DOMAIN records : Fresh(records[r], r) /\ records[r] = reading.records[r] /\ r \in S
    BY <1>5, <2>1 DEF Only, ReadingInv, RecordsAreFresh
  <2>3. DOMAIN records \subseteq S \cap DOMAIN reading.records
    BY <2>1 DEF Only
  <2> QED
    BY <1>5, <2>1, <2>2, <2>3, DoneKeepsReading
<1>6. CASE AnswerList \/ AnswerRoute
  <2>1. PICK S : Done("ok", Only(S), {})
    BY <1>6 DEF AnswerList, AnswerRoute, Show
  <2> QED
    BY <1>5, <1>6, <2>1 DEF AnswerList, AnswerRoute, Collected
<1>7. CASE FindRecord
  <2>1. ASSUME NEW s \in DOMAIN reading.records,
               reading' = [reading EXCEPT !.at = "file", !.records = Only({s})],
               At("text"), UNCHANGED library
        PROVE  ReadingInv'
    <3>1. PICK records : records = Only({s})
      OBVIOUS
    <3>2. DOMAIN records = {s} /\ records[s] = reading.records[s]
      BY <2>1, <3>1 DEF Only
    <3>3. /\ reading'.at = "file" /\ reading'.records = records /\ reading'.begun = reading.begun
          /\ UNCHANGED <<enabled, readable, version, name>>
      BY <2>1, <3>1 DEF library
    <3> QED
      BY <2>1, <3>2, <3>3
      DEF ReadingInv, LibraryShape, ReadSoFar, RecordsAreFresh, Fresh, Underway
  <2> QED
    BY <1>7, <2>1, RefusalsKeepReading DEF FindRecord, Collected
<1>8. CASE LoadText
  <2>1. ASSUME NEW s \in DOMAIN reading.records, Done("ok", reading.records, {version[s]}),
               At("file")
        PROVE  ReadingInv'
    <3>1. PICK records, text : records = reading.records /\ text = {version[s]}
      OBVIOUS
    <3>2. DOMAIN records = {s} /\ s \in Skills /\ Fresh(records[s], s) /\ version[s] \in Nat
      BY <2>1, <3>1 DEF ReadingInv, RecordsAreFresh, Underway, LibraryShape
    <3>3. \A r \in DOMAIN records :
            Fresh(records[r], r) /\ \A t \in text : t \in Nat /\ records[r].hash <= t
      BY <3>1, <3>2 DEF Fresh
    <3> QED
      BY <2>1, <3>1, <3>2, <3>3, DoneKeepsReading
  <2> QED
    BY <1>8, <2>1, RefusalsKeepReading DEF LoadText
<1>9. CASE LoadResource
  BY <1>9, RefusalsKeepReading DEF LoadResource
<1> QED
  BY <1>1, <1>2, <1>3, <1>4, <1>6, <1>7, <1>8, <1>9 DEF SkillsStep

LEMMA FrontKeepsReading == ReadingInv /\ [FrontNext]_frontVars => ReadingInv'
<1> SUFFICES ASSUME ReadingInv, [FrontNext]_frontVars PROVE ReadingInv'
  OBVIOUS
<1>1. Calls => RestSkills \/ \E kind, wanted : AskSkills(kind, wanted)
  BY DEF Calls, CallRouteAndRecall, CallSkills, CallMemory, CallForward, CallInvalid
<1>2. External => LibraryChanges \/ CliFails \/ CliAnswers \/ UNCHANGED skillsVars
  BY DEF External, MemoryStands
<1>3. Bridge => SkillsStep \/ UNCHANGED skillsVars
  BY DEF Bridge, MemoryStands, AnswerSkills, AnswerMemory, AfterRouting, AfterRecall
<1>4. UNCHANGED frontVars => UNCHANGED skillsVars
  BY DEF frontVars
<1>5. CASE RestSkills
  BY <1>5, RestKeepsReading DEF RestSkills
<1>6. CASE UNCHANGED skillsVars
  BY <1>6
  DEF skillsVars, library, ReadingInv, LibraryShape, ReadSoFar, RecordsAreFresh, Fresh, Underway
<1> QED
  BY <1>1, <1>2, <1>3, <1>4, <1>5, <1>6, AsksKeepReading, ChangesKeepReading, StepsKeepReading
  DEF FrontNext

\* The skill tools: metadata, hashes and texts are read during the request, the
\* text last, however the library changes meanwhile.
THEOREM AnswersAreFresh == FrontSpec => []FreshAnswers
<1>1. ReadingInv => FreshAnswers
  BY DEF ReadingInv, RecordsAreFresh, Fresh, Underway, FreshAnswers, At
<1>2. FrontInit => ReadingInv
  BY ReadingInit DEF FrontInit
<1> QED
  BY <1>1, <1>2, FrontKeepsReading, PTL DEF FrontSpec

----------------------------------------------------------------------------
(***************************************************************************)
(* What stayed is found.                                                   *)
(***************************************************************************)

\* Skills whose records or whose turn are still to come are found by the request.
Found == DOMAIN reading.records \cup reading.todo

\* The names that were read are the ones the skills still have.
Named(S) ==
  /\ reading.at \in {"text", "hash"} =>
       \A s \in S \cap DOMAIN reading.records : reading.records[s].name = name[s]
  /\ reading.at = "hash" /\ reading.current \in S => reading.name = name[reading.current]

StayedInv ==
  /\ reading.at # "none" => reading.stayed \subseteq Listed
  /\ reading.at \in {"text", "hash"} => reading.stayed \subseteq Found
  /\ reading.at # "none" => Named(reading.stayed)
  /\ DeniedSkillsWereAway

LEMMA StayedInit == SkillsInit => StayedInv
BY DEF SkillsInit, StayedInv, DeniedSkillsWereAway, NoReading, At

LEMMA StepsKeepStayed ==
  ASSUME ReadingInv, StayedInv, CliFails \/ CliAnswers \/ SkillsStep
  PROVE  StayedInv'
<1> USE DEF At
<1>1. ASSUME UNCHANGED library, reading.at # "none",
             reading'.at = "done", reading'.stayed = reading.stayed,
             reading'.code = "skill_unavailable" =>
               \A s \in reading.stayed : name[s] # reading'.wanted
      PROVE  StayedInv'
  BY <1>1 DEF library, StayedInv, Named, DeniedSkillsWereAway, Listed
<1>2. ASSUME NEW code, NEW records, NEW text, Done(code, records, text), reading.at # "none",
             code # "skill_unavailable"
      PROVE  StayedInv'
  BY <1>1, <1>2 DEF Done
<1>3. ASSUME UNCHANGED library, reading.at # "none",
             reading'.at \in {"text", "hash"}, reading'.stayed = reading.stayed,
             (reading.stayed \subseteq Found)', Named(reading.stayed)'
      PROVE  StayedInv'
  BY <1>3 DEF library, StayedInv, DeniedSkillsWereAway, Listed
<1>4. CASE CliFails
  BY <1>2, <1>4 DEF CliFails, RefuseSkills
<1>5. CASE CliAnswers
  <2>1. /\ reading.at = "cli" /\ reading'.at = "text" /\ reading'.stayed = reading.stayed
        /\ reading'.todo = enabled /\ DOMAIN reading'.records = {} /\ UNCHANGED library
    BY <1>5 DEF CliAnswers, Collecting, NoRecords
  <2> QED
    BY <1>3, <2>1 DEF StayedInv, Found, Named, Listed
<1>6. CASE ReadText
  <2>1. PICK s \in reading.todo :
          reading' = IF s \in readable
                     THEN [at |-> "hash", kind |-> reading.kind, wanted |-> reading.wanted,
                           begun |-> reading.begun, stayed |-> reading.stayed,
                           todo |-> reading.todo, records |-> reading.records,
                           current |-> s, meta |-> version[s], name |-> name[s]]
                     ELSE Collecting(reading.todo \ {s}, reading.records)
    BY <1>6 DEF ReadText
  <2>2. /\ reading.at = "text" /\ reading'.at \in {"text", "hash"}
        /\ reading'.stayed = reading.stayed /\ reading'.records = reading.records
        /\ reading'.todo = reading.todo \/ (s \notin readable /\ reading'.todo = reading.todo \ {s})
        /\ reading'.at = "hash" => reading'.current = s /\ reading'.name = name[s]
        /\ UNCHANGED library /\ name' = name
    BY <1>6, <2>1 DEF ReadText, Collecting, library
  <2> QED
    BY <1>3, <2>2 DEF StayedInv, Found, Named, Listed
<1>7. CASE ReadHash
  <2>1. CASE reading.current \in readable
    <3>1. /\ reading.at = "hash" /\ reading'.at = "text" /\ reading'.stayed = reading.stayed
          /\ reading'.todo = reading.todo \ {reading.current}
          /\ DOMAIN reading'.records = DOMAIN reading.records \cup {reading.current}
          /\ \A s \in DOMAIN reading'.records :
               reading'.records[s].name =
                 IF s = reading.current THEN reading.name ELSE reading.records[s].name
          /\ UNCHANGED library /\ name' = name
      BY <1>7, <2>1 DEF ReadHash, Collecting, library
    <3> QED
      BY <1>3, <3>1 DEF StayedInv, Found, Named, Listed
  <2>2. CASE reading.current \notin readable
    BY <1>2, <1>7, <2>2 DEF ReadHash, RefuseSkills
  <2> QED
    BY <2>1, <2>2
<1>8. CASE AnswerList \/ AnswerRoute
  BY <1>2, <1>8 DEF AnswerList, AnswerRoute, Show, Collected
<1>9. CASE FindRecord
  <2>1. /\ reading.at = "text" /\ reading.todo = {}
        /\ \A s \in reading.stayed :
             s \in Listed /\ s \in DOMAIN reading.records /\ reading.records[s].name = name[s]
    BY <1>9 DEF FindRecord, Collected, StayedInv, Found, Named
  <2>2. ASSUME NEW records, reading' = [reading EXCEPT !.at = "file", !.records = records],
               UNCHANGED library
        PROVE  StayedInv'
    <3>1. reading'.at = "file" /\ reading'.stayed = reading.stayed
      BY <2>2
    <3> QED
      BY <2>1, <2>2, <3>1 DEF library, StayedInv, Named, DeniedSkillsWereAway, Listed
  <2>3. ASSUME RefuseSkills("skill_unavailable"),
               \A s \in DOMAIN reading.records : reading.records[s].name # reading.wanted
        PROVE  StayedInv'
    BY <1>1, <2>1, <2>3 DEF RefuseSkills, Done
  <2> QED
    BY <1>9, <2>2, <2>3 DEF FindRecord
<1>10. CASE LoadText \/ LoadResource
  BY <1>2, <1>10 DEF LoadText, LoadResource, RefuseSkills
<1> QED
  BY <1>4, <1>5, <1>6, <1>7, <1>8, <1>9, <1>10 DEF SkillsStep

LEMMA FrontKeepsStayed == ReadingInv /\ StayedInv /\ [FrontNext]_frontVars => StayedInv'
<1> SUFFICES ASSUME ReadingInv, StayedInv, [FrontNext]_frontVars PROVE StayedInv'
  OBVIOUS
<1> USE DEF At
<1>1. CASE reading' = NoReading
  BY <1>1 DEF StayedInv, DeniedSkillsWereAway, NoReading
<1>2. ASSUME NEW kind, NEW wanted, AskSkills(kind, wanted)
      PROVE  StayedInv'
  <2>1. /\ reading' = [at |-> "cli", kind |-> kind, wanted |-> wanted, begun |-> version,
                       stayed |-> Listed]
        /\ UNCHANGED <<enabled, readable, version, name>>
    BY <1>2 DEF AskSkills, library
  <2> QED
    BY <2>1 DEF StayedInv, Named, DeniedSkillsWereAway, Listed
<1>3. CASE LibraryChanges
  <2>1. PICK on, there, contents, names : Change(on, there, contents, names)
    BY <1>3 DEF LibraryChanges, Enable, Disable, Delete, Edit
  <2>2. PICK stayed : stayed = {s \in reading.stayed \cap on \cap there : names[s] = name[s]}
    OBVIOUS
  <2>3. /\ reading' = [reading EXCEPT !.stayed = stayed] /\ reading.at \notin {"none", "done"}
        /\ enabled' = on /\ readable' = there /\ name' = names
    BY <2>1, <2>2 DEF Change
  <2>4. reading.at \in {"cli", "text", "hash", "file"}
    BY <2>3 DEF ReadingInv, Underway
  <2>5. /\ stayed \subseteq reading.stayed /\ stayed \subseteq enabled' \cap readable'
        /\ \A s \in stayed : name'[s] = name[s]
    BY <2>2, <2>3
  <2> QED
    BY <2>4, <2>5, <2>3 DEF StayedInv, Named, Found, DeniedSkillsWereAway, Listed
<1>4. CASE UNCHANGED skillsVars
  BY <1>4 DEF skillsVars, library, StayedInv, Named, Found, DeniedSkillsWereAway, Listed
<1>5. CASE CliFails \/ CliAnswers \/ SkillsStep
  BY <1>5, StepsKeepStayed
<1>6. Calls => reading' = NoReading \/ \E kind, wanted : AskSkills(kind, wanted)
  BY DEF Calls, CallRouteAndRecall, CallSkills, CallMemory, CallForward, CallInvalid, RestSkills
<1>7. External => LibraryChanges \/ CliFails \/ CliAnswers \/ UNCHANGED skillsVars
  BY DEF External, MemoryStands
<1>8. Bridge => SkillsStep \/ UNCHANGED skillsVars
  BY DEF Bridge, MemoryStands, AnswerSkills, AnswerMemory, AfterRouting, AfterRecall
<1>9. UNCHANGED frontVars => UNCHANGED skillsVars
  BY DEF frontVars
<1> QED
  BY <1>1, <1>2, <1>3, <1>4, <1>5, <1>6, <1>7, <1>8, <1>9 DEF FrontNext

\* record: a skill that was listed under the wanted name all the while is not
\* denied.
THEOREM DenialsAreTrue == FrontSpec => []DeniedSkillsWereAway
<1>1. StayedInv => DeniedSkillsWereAway
  BY DEF StayedInv
<1>2. FrontInit => ReadingInv /\ StayedInv
  BY ReadingInit, StayedInit DEF FrontInit
<1> QED
  BY <1>1, <1>2, FrontKeepsReading, FrontKeepsStayed, PTL DEF FrontSpec

----------------------------------------------------------------------------
(***************************************************************************)
(* A walk through the skill list.                                          *)
(***************************************************************************)

\* How many of found come before s, where no two have one name.
Ahead(found, s) == Cardinality({r \in found : name[r] < name[s]})

LEMMA SkillsAreFinite ==
  ASSUME NEW S \in SUBSET Skills
  PROVE  IsFiniteSet(S) /\ Cardinality(S) \in Nat
<1>1. IsFiniteSet(Skills)
  BY FS_Interval, CountAssumption DEF Skills
<1> QED
  BY <1>1, FS_Subset, FS_CardinalityType

LEMMA AheadOfMore ==
  ASSUME NEW T \in SUBSET Skills, NEW S \in SUBSET T, NEW s
  PROVE  Ahead(S, s) \in Nat /\ Ahead(T, s) \in Nat /\ Ahead(S, s) <= Ahead(T, s)
<1>1. {r \in S : name[r] < name[s]} \subseteq {r \in T : name[r] < name[s]}
  OBVIOUS
<1>2. {r \in T : name[r] < name[s]} \in SUBSET Skills /\ {r \in S : name[r] < name[s]} \in SUBSET Skills
  OBVIOUS
<1> QED
  BY <1>1, <1>2, SkillsAreFinite, FS_Subset DEF Ahead

LEMMA AheadOfMember ==
  ASSUME LibraryShape, NEW S \in SUBSET Skills, NEW s \in S
  PROVE  Ahead(S, s) < Cardinality(S)
<1>1. IsFiniteSet(S) /\ Cardinality(S) \in Nat /\ S \ {s} \in SUBSET Skills
  BY SkillsAreFinite
<1>2. Cardinality(S \ {s}) = Cardinality(S) - 1
  BY <1>1, FS_RemoveElement
<1>3. {r \in S : name[r] < name[s]} \subseteq S \ {s}
  BY DEF LibraryShape
<1>4. Cardinality({r \in S : name[r] < name[s]}) <= Cardinality(S \ {s})
  BY <1>1, <1>3, SkillsAreFinite, FS_Subset
<1>5. Cardinality({r \in S : name[r] < name[s]}) \in Nat
  BY <1>3, SkillsAreFinite
<1> QED
  BY <1>1, <1>2, <1>4, <1>5 DEF Ahead

\* A walk that is not over, and in which nothing moved, has passed by no skill
\* that was there all the while: with those that the last page was cut from
\* still there, what it has not shown is at the offset or behind it.  They and
\* the skills that stayed are found again by the request that is under way.
Passed(found) ==
  /\ found \subseteq Listed
  /\ \A s \in walk.stayed \ walk.seen : Ahead(found, s) >= walk.offset
  /\ reading.at \in {"text", "hash"} => found \cup walk.stayed \subseteq Found

\* What was read is listed, under the name that was read.
Kept ==
  /\ reading.at \in {"text", "hash"} =>
       /\ DOMAIN reading.records \subseteq Listed /\ reading.todo \subseteq enabled
       /\ \A s \in DOMAIN reading.records : reading.records[s].name = name[s]
  /\ reading.at = "hash" =>
       reading.current \in Listed /\ reading.name = name[reading.current]

WalkGoesOn ==
  ~walk.over /\ ~walk.moved =>
    /\ walk.stayed \subseteq Listed
    /\ ~Ambiguous(Listed, name)
    /\ Kept
    /\ \E found \in SUBSET Skills : Passed(found)

Walks ==
  [over : {TRUE}, seen : SUBSET Skills, stayed : SUBSET Skills, moved : BOOLEAN]
    \cup [offset : Nat, over : BOOLEAN, seen : SUBSET Skills, stayed : SUBSET Skills, moved : BOOLEAN]

WalkShape ==
  /\ walk \in Walks
  /\ reading.at \in {"cli", "text", "hash"} /\ reading.kind = "list" => ~walk.over

WalkInv == WalkShape /\ WalkGoesOn /\ PagesMissNothing

LEMMA WalkInit == SkillsInit => WalkInv
BY DEF SkillsInit, WalkInv, WalkShape, WalkGoesOn, PagesMissNothing, Walks, NoWalk, NoReading

LEMMA RestKeepsWalk ==
  ASSUME reading' = NoReading, walk' = NoWalk
  PROVE  WalkInv'
BY DEF WalkInv, WalkShape, WalkGoesOn, PagesMissNothing, Walks, NoWalk, NoReading

\* A step that leaves the library and the walk alone, and the request past its
\* reading or with all it has to find, leaves the walk as it was.
LEMMA WalkStands ==
  ASSUME WalkInv, UNCHANGED <<library, walk>>,
         ~walk.over /\ ~walk.moved =>
           /\ Kept'
           /\ reading'.at \in {"text", "hash"} =>
                \A found \in SUBSET Skills : Passed(found) => found \cup walk.stayed \subseteq Found',
         reading'.at \in {"cli", "text", "hash"} /\ reading'.kind = "list" => ~walk.over
  PROVE  WalkInv'
<1>1. UNCHANGED <<enabled, readable, name, walk>>
  BY DEF library
<1>2. WalkShape' /\ PagesMissNothing'
  BY <1>1 DEF WalkInv, WalkShape, PagesMissNothing
<1>3. WalkGoesOn'
  <2> SUFFICES ASSUME ~walk'.over, ~walk'.moved PROVE WalkGoesOn'
    BY DEF WalkGoesOn
  <2>1. PICK found \in SUBSET Skills : Passed(found)
    BY <1>1 DEF WalkInv, WalkGoesOn
  <2>2. Passed(found)'
    BY <1>1, <2>1 DEF Passed, Ahead, Listed
  <2> QED
    BY <1>1, <2>2 DEF WalkInv, WalkGoesOn, Listed, Ambiguous
<1> QED
  BY <1>2, <1>3 DEF WalkInv

LEMMA AsksKeepWalk ==
  ASSUME ReadingInv, WalkInv, NEW kind, NEW wanted, AskSkills(kind, wanted)
  PROVE  WalkInv'
<1>1. /\ reading' = [at |-> "cli", kind |-> kind, wanted |-> wanted, begun |-> version,
                     stayed |-> Listed]
      /\ UNCHANGED <<enabled, readable, name>> /\ UNCHANGED library
  BY DEF AskSkills, library
<1>2. CASE kind # "list"
  <2>1. walk' = NoWalk
    BY <1>2 DEF AskSkills
  <2> QED
    BY <1>1, <1>2, <2>1 DEF WalkInv, WalkShape, WalkGoesOn, PagesMissNothing, Walks, NoWalk
<1>3. CASE kind = "list" /\ walk.over
  <2>1. walk' = NewWalk
    BY <1>3 DEF AskSkills
  <2>2. Listed \in SUBSET Skills /\ Ambiguous(Listed, name) \in BOOLEAN
    BY DEF ReadingInv, LibraryShape, Listed, Ambiguous
  <2>3. WalkShape' /\ PagesMissNothing'
    BY <1>1, <2>1, <2>2 DEF WalkShape, PagesMissNothing, Walks, NewWalk
  <2>4. \A s : Ahead({}, s) \in Nat
    BY AheadOfMore
  <2>5. Passed({})'
    BY <1>1, <2>1, <2>4 DEF Passed, NewWalk, Ahead, Listed
  <2>6. WalkGoesOn'
    BY <1>1, <2>1, <2>5 DEF WalkGoesOn, NewWalk, Kept, Listed, Ambiguous
  <2> QED
    BY <2>3, <2>6 DEF WalkInv
<1>4. CASE kind = "list" /\ ~walk.over
  <2>1. walk' = walk
    BY <1>4 DEF AskSkills
  <2> QED
    BY <1>1, <1>4, <2>1, WalkStands DEF Kept
<1> QED
  BY <1>2, <1>3, <1>4

\* Where nothing is disabled, deleted or renamed, what stayed and what the last
\* page was cut from is still there, in the same order.
LEMMA ChangesKeepWalk ==
  ASSUME ReadingInv, WalkInv, LibraryChanges
  PROVE  WalkInv'
<1>1. PICK on, there, contents, names : Change(on, there, contents, names)
  BY DEF LibraryChanges, Enable, Disable, Delete, Edit
<1>2. PICK stayed, moved :
        /\ stayed = {s \in walk.stayed \cap on \cap there : names[s] = name[s]}
        /\ moved = (\/ walk.moved
                    \/ ~(enabled \subseteq on /\ readable \subseteq there)
                    \/ \E s \in Listed : names[s] # name[s]
                    \/ Ambiguous(on \cap there, names))
  OBVIOUS
<1>3. /\ enabled' = on /\ readable' = there /\ name' = names
      /\ \E also : reading' = [reading EXCEPT !.stayed = also]
      /\ reading.at \in {"cli", "text", "hash", "file"}
      /\ walk' = IF walk.over THEN walk ELSE [walk EXCEPT !.stayed = stayed, !.moved = moved]
  BY <1>1, <1>2 DEF Change, ReadingInv, Underway
<1>4. /\ reading'.at = reading.at
      /\ reading.at \in {"cli", "text", "hash"} => reading'.kind = reading.kind
      /\ reading.at \in {"text", "hash"} =>
           reading'.todo = reading.todo /\ reading'.records = reading.records
      /\ reading.at = "hash" => reading'.current = reading.current /\ reading'.name = reading.name
  BY <1>3
<1>5. CASE walk.over
  BY <1>3, <1>4, <1>5 DEF WalkInv, WalkShape, WalkGoesOn, PagesMissNothing
<1>6. CASE ~walk.over
  <2>1. /\ walk \in [offset : Nat, over : BOOLEAN, seen : SUBSET Skills, stayed : SUBSET Skills,
                     moved : BOOLEAN]
        /\ stayed \in SUBSET Skills /\ moved \in BOOLEAN
    BY <1>2, <1>6 DEF WalkInv, WalkShape, Walks, Ambiguous
  <2>2. /\ walk'.over = walk.over /\ walk'.seen = walk.seen /\ walk'.offset = walk.offset
        /\ walk'.stayed = stayed /\ walk'.moved = moved /\ walk' \in Walks
    BY <1>3, <1>6, <2>1 DEF Walks
  <2>3. WalkShape' /\ PagesMissNothing'
    BY <1>4, <1>6, <2>2 DEF WalkInv, WalkShape, PagesMissNothing
  <2>4. WalkGoesOn'
    <3> SUFFICES ASSUME ~moved PROVE WalkGoesOn'
      BY <2>2 DEF WalkGoesOn
    <3>1. /\ ~walk.moved /\ Listed \subseteq Listed' /\ enabled \subseteq enabled'
          /\ \A s \in Listed : name'[s] = name[s]
          /\ ~Ambiguous(Listed', name')
      BY <1>2, <1>3 DEF Listed
    <3>2. stayed = walk.stayed /\ walk.stayed \subseteq Listed /\ Kept
      BY <1>2, <1>3, <1>6, <3>1 DEF WalkInv, WalkGoesOn, Listed
    <3>3. PICK found \in SUBSET Skills : Passed(found)
      BY <1>6, <3>1 DEF WalkInv, WalkGoesOn
    <3>4. \A s \in walk.stayed : {r \in found : name'[r] < name'[s]} = {r \in found : name[r] < name[s]}
      BY <3>1, <3>2, <3>3 DEF Passed
    <3>5. Found' = Found \/ reading.at \notin {"text", "hash"}
      BY <1>4 DEF Found
    <3>6. Passed(found)'
      BY <1>4, <2>2, <3>1, <3>2, <3>3, <3>4, <3>5 DEF Passed, Ahead
    <3>7. Kept'
      BY <1>4, <3>1, <3>2 DEF Kept
    <3> QED
      BY <2>2, <3>1, <3>2, <3>6, <3>7 DEF WalkGoesOn
  <2> QED
    BY <2>3, <2>4 DEF WalkInv
<1> QED
  BY <1>5, <1>6

\* The next page shows what is at the offset, so that everything it does not show
\* is behind the new one, or there is nothing.
LEMMA PagesKeepWalk ==
  ASSUME ReadingInv, WalkInv, AnswerList
  PROVE  WalkInv'
<1> DEFINE last == walk.offset + PageSize
<1>0. PICK found : found = DOMAIN reading.records
  OBVIOUS
<1>1. PICK tie \in Tiebreaks : Show(Page(tie), Page(tie).upto)
  BY DEF AnswerList
<1>2. PICK upto, shown : upto = Page(tie).upto /\ shown = Page(tie).shown
  OBVIOUS
<1>3. /\ At("text") /\ reading.kind = "list" /\ reading.todo = {} /\ ~walk.over
      /\ found \in SUBSET Skills /\ Cardinality(found) \in Nat
      /\ walk.offset \in Nat
  BY <1>0, SkillsAreFinite
  DEF AnswerList, Collected, At, WalkInv, WalkShape, Walks, ReadingInv, RecordsAreFresh
<1>4. /\ upto = IF last < Cardinality(found) THEN last ELSE Cardinality(found)
      /\ shown = {s \in found : Cardinality({r \in found : Before(r, s, tie)}) \in walk.offset .. upto - 1}
      /\ Page(tie).more = (upto < Cardinality(found))
  BY <1>0, <1>2 DEF Page
<1>5. /\ walk' = [walk EXCEPT !.offset = upto, !.seen = @ \cup shown, !.over = ~(upto < Cardinality(found))]
      /\ reading'.at = "done"
      /\ UNCHANGED <<enabled, readable, name>>
  BY <1>1, <1>2, <1>4 DEF Show, Done, library
<1>6. upto \in Nat /\ shown \in SUBSET Skills
  BY <1>3, <1>4, PageAssumption
<1>7. /\ walk' \in Walks
      /\ walk'.offset = upto /\ walk'.seen = walk.seen \cup shown
      /\ walk'.over = ~(upto < Cardinality(found))
      /\ walk'.stayed = walk.stayed /\ walk'.moved = walk.moved
  <2>1. walk \in [offset : Nat, over : BOOLEAN, seen : SUBSET Skills, stayed : SUBSET Skills, moved : BOOLEAN]
    BY <1>3 DEF WalkInv, WalkShape, Walks
  <2> QED
    BY <1>5, <1>6, <2>1 DEF Walks
<1> HIDE DEF last
<1>8. ASSUME ~walk.moved
      PROVE  /\ walk.stayed \subseteq found /\ found \subseteq Listed
             /\ \A s \in walk.stayed \ walk'.seen : Ahead(found, s) \in Nat /\ Ahead(found, s) >= upto
  <2>1. PICK before \in SUBSET Skills : Passed(before)
    BY <1>3, <1>8 DEF WalkInv, WalkGoesOn
  <2>2. before \cup walk.stayed \subseteq found /\ found \subseteq Listed
    BY <1>0, <1>3, <1>8, <2>1 DEF WalkInv, WalkGoesOn, Kept, Passed, Found, At
  <2>3. \A s \in found : {r \in found : Before(r, s, tie)} = {r \in found : name[r] < name[s]}
    <3>1. \A r \in found : reading.records[r].name = name[r] /\ name[r] \in Nat
      BY <1>0, <1>3, <1>8 DEF WalkInv, WalkGoesOn, Kept, At, ReadingInv, LibraryShape
    <3>2. \A r, s \in found : r # s => name[r] # name[s]
      BY <1>3, <1>8, <2>2 DEF WalkInv, WalkGoesOn, Ambiguous
    <3>3. \A s \in found : tie[s] \in Int
      BY <1>3 DEF Tiebreaks, Skills
    <3> QED
      BY <3>1, <3>2, <3>3 DEF Before
  <2>4. shown = {s \in found : Ahead(found, s) \in walk.offset .. upto - 1}
    BY <1>4, <2>3 DEF Ahead
  <2>5. ASSUME NEW s \in walk.stayed \ walk'.seen
        PROVE  Ahead(found, s) \in Nat /\ Ahead(found, s) >= upto
    <3>1. s \in found /\ s \notin walk.seen /\ s \notin shown
      BY <1>7, <2>2
    <3>2. /\ Ahead(before, s) \in Nat /\ Ahead(found, s) \in Nat
          /\ Ahead(before, s) <= Ahead(found, s)
      BY <1>3, <2>2, AheadOfMore
    <3>3. Ahead(before, s) >= walk.offset
      BY <2>1, <3>1 DEF Passed
    <3> QED
      BY <1>3, <1>6, <2>4, <3>1, <3>2, <3>3
  <2> QED
    BY <2>2, <2>5
<1>9. WalkGoesOn'
  <2> SUFFICES ASSUME ~walk'.over, ~walk'.moved PROVE WalkGoesOn'
    BY DEF WalkGoesOn
  <2>1. Passed(found)'
    BY <1>5, <1>7, <1>8 DEF Passed, Ahead, Listed
  <2> QED
    BY <1>3, <1>5, <1>7, <1>8, <2>1 DEF WalkInv, WalkGoesOn, Kept, Listed, Ambiguous
<1>10. PagesMissNothing'
  <2> SUFFICES ASSUME walk'.over, ~walk'.moved, NEW s \in walk'.stayed, s \notin walk'.seen
               PROVE  FALSE
    BY DEF PagesMissNothing
  <2>1. s \in found /\ Ahead(found, s) \in Nat /\ Ahead(found, s) >= upto
    BY <1>7, <1>8
  <2>2. Ahead(found, s) < Cardinality(found)
    BY <1>3, <2>1, AheadOfMember DEF ReadingInv
  <2>3. ~(upto < Cardinality(found))
    BY <1>7, Zenon
  <2> QED
    BY <1>3, <1>6, <2>1, <2>2, <2>3
<1> QED
  BY <1>5, <1>7, <1>9, <1>10 DEF WalkInv, WalkShape

LEMMA StepsKeepWalk ==
  ASSUME ReadingInv, WalkInv, CliFails \/ CliAnswers \/ SkillsStep
  PROVE  WalkInv'
<1> USE DEF At
<1>1. ASSUME reading'.at \in {"done", "file"}, UNCHANGED <<library, walk>>
      PROVE  WalkInv'
  BY <1>1, WalkStands DEF Kept
<1>2. ASSUME NEW code, RefuseSkills(code)
      PROVE  WalkInv'
  BY <1>1, <1>2 DEF RefuseSkills, Done
<1>3. CASE CliAnswers
  <2>1. /\ reading'.at = "text" /\ reading'.kind = reading.kind /\ reading'.todo = enabled
        /\ DOMAIN reading'.records = {} /\ UNCHANGED <<library, walk>> /\ enabled' = enabled
        /\ reading.at = "cli"
    BY <1>3 DEF CliAnswers, Collecting, NoRecords, library
  <2>2. ~walk.over /\ ~walk.moved =>
          /\ Kept'
          /\ \A found \in SUBSET Skills : Passed(found) => found \cup walk.stayed \subseteq enabled
    BY <2>1 DEF Passed, WalkInv, WalkGoesOn, Kept, Listed
  <2>3. Found' = enabled
    BY <2>1 DEF Found
  <2> QED
    BY <2>1, <2>2, <2>3, WalkStands DEF WalkInv, WalkShape
<1>4. CASE ReadText
  <2>1. PICK s \in reading.todo :
          reading' = IF s \in readable
                     THEN [at |-> "hash", kind |-> reading.kind, wanted |-> reading.wanted,
                           begun |-> reading.begun, stayed |-> reading.stayed,
                           todo |-> reading.todo, records |-> reading.records,
                           current |-> s, meta |-> version[s], name |-> name[s]]
                     ELSE Collecting(reading.todo \ {s}, reading.records)
    BY <1>4 DEF ReadText
  <2>2. /\ reading.at = "text" /\ reading'.at \in {"text", "hash"}
        /\ reading'.kind = reading.kind /\ reading'.records = reading.records
        /\ reading'.todo = reading.todo \/ (s \notin readable /\ reading'.todo = reading.todo \ {s})
        /\ reading'.at = "hash" => s \in readable /\ reading'.current = s /\ reading'.name = name[s]
        /\ UNCHANGED <<library, walk>> /\ UNCHANGED <<enabled, readable, name>>
    BY <1>4, <2>1 DEF ReadText, Collecting, library
  <2>3. ~walk.over /\ ~walk.moved =>
          /\ Kept'
          /\ \A found \in SUBSET Skills : Passed(found) => found \cup walk.stayed \subseteq Found'
    BY <2>2 DEF Passed, Found, WalkInv, WalkGoesOn, Kept, Listed
  <2> QED
    BY <2>2, <2>3, WalkStands DEF WalkInv, WalkShape
<1>5. CASE ReadHash
  <2>1. CASE reading.current \in readable
    <3>1. /\ reading.at = "hash" /\ reading'.at = "text" /\ reading'.kind = reading.kind
          /\ reading'.todo = reading.todo \ {reading.current}
          /\ DOMAIN reading'.records = DOMAIN reading.records \cup {reading.current}
          /\ \A s \in DOMAIN reading'.records :
               reading'.records[s].name =
                 IF s = reading.current THEN reading.name ELSE reading.records[s].name
          /\ UNCHANGED <<library, walk>> /\ UNCHANGED <<enabled, readable, name>>
      BY <1>5, <2>1 DEF ReadHash, Collecting, library
    <3>2. ~walk.over /\ ~walk.moved =>
            /\ Kept'
            /\ \A found \in SUBSET Skills : Passed(found) => found \cup walk.stayed \subseteq Found'
      BY <3>1 DEF Passed, Found, WalkInv, WalkGoesOn, Kept, Listed
    <3> QED
      BY <3>1, <3>2, WalkStands DEF WalkInv, WalkShape
  <2>2. CASE reading.current \notin readable
    BY <1>2, <1>5, <2>2 DEF ReadHash
  <2> QED
    BY <2>1, <2>2
<1>6. CASE AnswerRoute
  BY <1>1, <1>6 DEF AnswerRoute, Done
<1>7. CASE FindRecord
  <2>1. ASSUME NEW records, reading' = [reading EXCEPT !.at = "file", !.records = records],
               UNCHANGED <<library, walk>>
        PROVE  WalkInv'
    BY <1>1, <2>1
  <2> QED
    BY <1>2, <1>7, <2>1 DEF FindRecord
<1>8. CASE LoadText
  BY <1>1, <1>2, <1>8 DEF LoadText, Done
<1>9. CASE LoadResource
  BY <1>2, <1>9 DEF LoadResource
<1> QED
  BY <1>2, <1>3, <1>4, <1>5, <1>6, <1>7, <1>8, <1>9, PagesKeepWalk DEF SkillsStep, CliFails

LEMMA FrontKeepsWalk == ReadingInv /\ WalkInv /\ [FrontNext]_frontVars => WalkInv'
<1> SUFFICES ASSUME ReadingInv, WalkInv, [FrontNext]_frontVars PROVE WalkInv'
  OBVIOUS
<1>1. Calls => RestSkills \/ \E kind, wanted : AskSkills(kind, wanted)
  BY DEF Calls, CallRouteAndRecall, CallSkills, CallMemory, CallForward, CallInvalid
<1>2. External => LibraryChanges \/ CliFails \/ CliAnswers \/ UNCHANGED skillsVars
  BY DEF External, MemoryStands
<1>3. Bridge => SkillsStep \/ UNCHANGED skillsVars
  BY DEF Bridge, MemoryStands, AnswerSkills, AnswerMemory, AfterRouting, AfterRecall
<1>4. UNCHANGED frontVars => UNCHANGED skillsVars
  BY DEF frontVars
<1>5. CASE RestSkills
  BY <1>5, RestKeepsWalk DEF RestSkills
<1>6. CASE UNCHANGED skillsVars
  <2>1. reading' = reading /\ UNCHANGED <<library, walk>>
    BY <1>6 DEF skillsVars
  <2>2. Found' = Found /\ (Kept => Kept')
    BY <2>1 DEF Found, Kept, Listed, library
  <2> QED
    BY <2>1, <2>2, WalkStands DEF WalkInv, WalkShape, WalkGoesOn, Passed
<1> QED
  BY <1>1, <1>2, <1>3, <1>4, <1>5, <1>6, AsksKeepWalk, ChangesKeepWalk, StepsKeepWalk
  DEF FrontNext

\* SkillsList: a client that follows next_offset to the end misses no skill that
\* was there all the while, whatever the page size and whatever is added between
\* the pages or during one, as long as no skill is disabled, deleted or renamed
\* and names differ.
THEOREM WalksAreComplete == FrontSpec => []PagesMissNothing
<1>1. WalkInv => PagesMissNothing
  BY DEF WalkInv
<1>2. FrontInit => ReadingInv /\ WalkInv
  BY ReadingInit, WalkInit DEF FrontInit
<1> QED
  BY <1>1, <1>2, FrontKeepsReading, FrontKeepsWalk, PTL DEF FrontSpec
=============================================================================
