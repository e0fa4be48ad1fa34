-------------------------- MODULE MCRouteAndRecall --------------------------
(***************************************************************************)
(* Instances of RouteAndRecall for TLC.                                    *)
(***************************************************************************)
EXTENDS RouteAndRecall

Adapter(id, tools, dependencies) ==
  [id |-> id, tools |-> tools, operations |-> ToSet(tools), dependencies |-> dependencies]

\* server/adapters.go: defaultAdapters.
MCDefaults == <<
  Adapter("shared_skills", <<"route_and_recall", "route", "skills_list", "load_skill",
                             "load_skill_resource">>, {}),
  Adapter("shared_mcp", <<"mcp_list", "mcp_status", "mcp_call">>, {}),
  Adapter("shared_memory", <<"memory_search", "memory_list", "memory_call">>, {}),
  Adapter("work_runtime", <<"work">>, {}),
  Adapter("web_accelerator", <<"accelerator">>, {"shared_mcp", "work_runtime"}),
  Adapter("bridge_doctor", <<"doctor">>, {}) >>

Vision(tools, dependencies) == Adapter("vision", tools, dependencies)
Start(added, choice) == [extras |-> added, selected |-> choice]

\* Everything, memory alone, the upstream tools alone and skills without memory
\* are served, the latter with an adapter added.  The others are refused: a
\* selection of what is not there or lacks a dependency, adapters with a tool of
\* another, the id of another, a tool without operation, a dependency that is not
\* there.
MCStartups == {
  Start(<<>>, {}),
  Start(<<>>, {"shared_memory"}),
  Start(<<>>, {"shared_mcp"}),
  Start(<<Vision(<<"describe">>, {"shared_skills"})>>, {"shared_skills", "vision"}),
  Start(<<Vision(<<"describe">>, {"shared_memory"})>>, {"shared_skills", "vision"}),
  Start(<<>>, {"web_accelerator", "shared_mcp"}),
  Start(<<>>, {"shared_skills", "vision"}),
  Start(<<Vision(<<"describe", "memory_search">>, {})>>, {"shared_skills", "vision"}),
  Start(<<Vision(<<"describe">>, {}), Vision(<<"see">>, {})>>, {}),
  Start(<<[Vision(<<"describe">>, {}) EXCEPT !.operations = {}]>>, {}),
  Start(<<Vision(<<"describe">>, {"camera"})>>, {}) }

\* The names differ at first.
MCFirstNames == {[s \in Skills |-> s]}

MCSources == <<"memos", "obsidian">>
=============================================================================
