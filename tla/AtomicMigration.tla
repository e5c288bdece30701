--------------------------- MODULE AtomicMigration ---------------------------
(***************************************************************************)
(* What tools/migration_execution.py promises of one schema module: the    *)
(* database leads, the accepted schema follows, and they are never more    *)
(* than one migration apart.  `committed` is the revision of the database, *)
(* `published` the accepted revision.                                      *)
(***************************************************************************)
CONSTANTS Revs, Root, Parent

VARIABLES committed, published

Init == committed = Root /\ published = Root

\* one transaction applies a migration planned from what is published
Upgrade ==
    /\ committed = published
    /\ committed' \in {r \in Revs \ {Root} : Parent[r] = published}
    /\ UNCHANGED published

\* one transaction undoes the migration that led to what is published
Downgrade ==
    /\ committed = published
    /\ published # Root
    /\ committed' = Parent[published]
    /\ UNCHANGED published

\* the accepted state is brought to exactly what the database holds
Publish ==
    /\ published' = committed
    /\ UNCHANGED committed

Next == Upgrade \/ Downgrade \/ Publish

Spec == Init /\ [][Next]_<<committed, published>>
=============================================================================
