------------------------------ MODULE Surface ------------------------------
(***************************************************************************)
(* The public surface (server/app.go BuildWithAdapters, registerAdapters   *)
(* of server/adapters.go, capabilities/registry.go).  At start-up the      *)
(* adapters are registered one after the other, the operator's selection   *)
(* is validated, and the tools of the enabled modules are served.  An      *)
(* error ends the process.  Afterwards nothing changes.                    *)
(*                                                                         *)
(* An adapter names its module, its tools in order, the tools it has       *)
(* operations for, and the modules it depends on.                          *)
(***************************************************************************)
EXTENDS Integers, SequencesExt

CONSTANTS
  Defaults,    \* the built-in adapters, a sequence
  Startups     \* records of the adapters that are added, and of the module ids that
               \* CODEXPRO_BRIDGE_MODULES selects

Adapters == [id : STRING, tools : Seq(STRING), operations : SUBSET STRING,
             dependencies : SUBSET STRING]

ASSUME SurfaceAssumption ==
  /\ Defaults \in Seq(Adapters)
  /\ \A s \in Startups : s.extras \in Seq(Adapters) /\ s.selected \in SUBSET STRING

VARIABLES
  adapters,     \* those this process is built with
  selected,     \* Registry.selected
  registered,   \* Registry.modules
  bound,        \* Operations: tool -> the module whose operation it calls
  surface,      \* "building", "ready" or "refused"
  served        \* ActualTools

surfaceVars == <<adapters, selected, registered, bound, surface, served>>

SurfaceInit ==
  /\ \E s \in Startups : adapters = Defaults \o s.extras /\ selected = s.selected
  /\ registered = <<>>
  /\ bound = [t \in {} |-> ""]
  /\ surface = "building"
  /\ served = {}

Known == {m.id : m \in ToSet(registered)}

\* An empty selection enables everything.
IsEnabled(id) == id \in (IF selected = {} THEN Known ELSE selected)
Enabled == {m \in ToSet(registered) : IsEnabled(m.id)}
ExpectedTools == UNION {ToSet(m.tools) : m \in Enabled}

----------------------------------------------------------------------------
RefuseSurface == surface' = "refused" /\ UNCHANGED <<registered, served>>

\* registerAdapters goes through the tools and stores the operation of each, up
\* to the first that occurs twice or has none.
Stored(a) ==
  LET fine(i) == a.tools[i] \in a.operations /\ \A j \in 1 .. i - 1 : a.tools[j] # a.tools[i]
  IN  {a.tools[i] : i \in {k \in DOMAIN a.tools : \A j \in 1 .. k : fine(j)}}

\* Its checks: tools that differ, with an operation for each
\* of them and for nothing else.
WellFormed(a) == a.tools # <<>> /\ IsInjective(a.tools) /\ ToSet(a.tools) = a.operations

\* Mutant of Collides: only ids are compared.
CollidesById(a) == \E m \in ToSet(registered) : m.id = a.id

\* Registry.Register's.
Collides(a) ==
  \E m \in ToSet(registered) : m.id = a.id \/ ToSet(m.tools) \cap ToSet(a.tools) # {}

\* The operations are stored before Register compares the names with those of
\* earlier modules.
RegisterNext ==
  /\ surface = "building"
  /\ Len(registered) < Len(adapters)
  /\ LET a == adapters[Len(registered) + 1]
     IN  /\ bound' = [t \in Stored(a) \cup DOMAIN bound |->
                        IF t \in Stored(a) THEN a.id ELSE bound[t]]
         /\ IF WellFormed(a) /\ ~Collides(a)
            THEN registered' = Append(registered, a) /\ UNCHANGED <<surface, served>>
            ELSE RefuseSurface
  /\ UNCHANGED <<adapters, selected>>

ValidateSelection ==
  /\ selected \subseteq Known
  /\ \A m \in ToSet(registered) :
       \A d \in m.dependencies : d \in Known /\ (IsEnabled(m.id) => IsEnabled(d))

\* SurfaceAudit: no tool is missing and none is an orphan.
Consistent(actual) == actual = ExpectedTools

\* Validation, Server.AddTool for each tool, and the audit of the outcome.
ServeTools ==
  /\ surface = "building"
  /\ Len(registered) = Len(adapters)
  /\ LET actual == UNION {ToSet(m.tools) : m \in Enabled}
     IN  IF ValidateSelection /\ actual \subseteq DOMAIN bound /\ Consistent(actual)
         THEN surface' = "ready" /\ served' = actual /\ UNCHANGED registered
         ELSE RefuseSurface
  /\ UNCHANGED <<adapters, selected, bound>>

SurfaceStep == RegisterNext \/ ServeTools

----------------------------------------------------------------------------
\* What is served is what the selection says: each tool of an enabled module,
\* none that a disabled module has, each leading to the operation of the module
\* that lists it, whatever adapters were registered after it; and every module
\* an enabled one depends on is enabled.
SurfaceIsSound ==
  surface = "ready" =>
    /\ \A m \in ToSet(registered) :
         \A t \in ToSet(m.tools) :
           IF IsEnabled(m.id) THEN t \in served /\ bound[t] = m.id ELSE t \notin served
    /\ \A m \in Enabled : m.dependencies \subseteq {n.id : n \in Enabled}
    /\ selected \subseteq Known
=============================================================================
