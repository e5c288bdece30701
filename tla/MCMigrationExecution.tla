------------------------ MODULE MCMigrationExecution ------------------------
(***************************************************************************)
(* Instances of MigrationExecution for TLC.  A revision is the path of     *)
(* schemas that leads to it, so Parent drops the last schema of a path.    *)
(***************************************************************************)
EXTENDS MigrationExecution, Sequences, SequencesExt

CONSTANTS v1, v2, v3

MCRoot == <<v1>>
MCParent == [r \in Revs \ {Root} |-> Front(r)]
MCSchemaOf == [r \in Revs |-> Last(r)]
MCReversible == Revs \ {Root}

\* no schema is ever proposed again: v1 -> v2 -> v3
ChainRevs == {<<v1>>, <<v1, v2>>, <<v1, v2, v3>>}

\* one revision only: the smallest world two renderers can race in
SingleRevs == {<<v1>>, <<v1, v2>>}
=============================================================================
