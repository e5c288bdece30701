------------------------ MODULE MCBackendGeneration ------------------------
(* Two modules of two layers; neither needs the other, the first in order of *)
(* names needs the second, or each needs the other.  One trusted file and    *)
(* one of the application.                                                   *)
EXTENDS BackendGeneration

MCModules == {1, 2}
MCGraphs ==
    {g \in [Modules -> SUBSET Modules] :
        /\ \A m \in Modules : m \notin g[m]
        /\ g[2] # {} => g[1] # {}}
MCUnparsable == {MaxVersion}
=============================================================================
