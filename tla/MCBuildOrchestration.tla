------------------------ MODULE MCBuildOrchestration ------------------------
(***************************************************************************)
(* Two builders of an application of two surfaces, one of them a runtime   *)
(* file, next to an extension that is the user's.                          *)
(***************************************************************************)
EXTENDS BuildOrchestration

MCSurfaces == {1, 2}
MCGeneratorOf == <<"runtime", "migration">>
MCUserFiles == {9}
MCTraces == {[named |-> {2}, hostile |-> h] : h \in BOOLEAN}
            \cup {[named |-> {1, 9}, hostile |-> FALSE]}
=============================================================================
