--------------------------- MODULE MCToolCatalog ---------------------------
(***************************************************************************)
(* Instances of ToolCatalog for TLC.                                       *)
(***************************************************************************)
EXTENDS ToolCatalog

\* Three routes, two with one slug on different ports.  The first shares tools
\* with each of the others, which have tools of their own, and one tool has the
\* name under which the second route's "find" is listed beside the first's.
MCSlug == << <<"a">>, <<"b">>, <<"b">> >>
MCTools == {<<"find">>, <<"read">>, <<"add">>, <<"own">>, <<"b", "find">>}
MCOffers == << {<<"find">>, <<"read">>, <<"b", "find">>},
               {<<"find">>, <<"add">>},
               {<<"read">>, <<"own">>, <<"b", "find">>} >>
MCSources == { <<"a">>, <<"b">> }
=============================================================================
