---------------------------- MODULE GeneratedService ----------------------------
(***************************************************************************)
(* The service that the generator writes for a module (tools/templates:    *)
(* router.j2, service.j2, crud.j2, model.j2): requests of several tenants  *)
(* that overlap on one table.  Each has a session of its own: what it      *)
(* loads is what it will write, and the database sees only what changed.   *)
(* A contract says which of soft deletion, version column, tenancy and     *)
(* relationships the module was generated with; the relationship is one to *)
(* the table itself.  Field values and the audit columns are left out, and *)
(* so is a hard deletion of what other rows refer to.  The key of a row is *)
(* the database's, which never gives one twice.                            *)
(***************************************************************************)
EXTENDS Naturals, FiniteSets, Authorization

CONSTANTS
    Requests,       \* the requests
    Members,        \* principals of the authentication middleware, with their scopes
    RowIds, RowValues, NoRef,
    ServiceContracts, \* [soft, versioned, tenant, related]
    ServicePolicy

ASSUME ServiceAssumption ==
    /\ ServiceContracts \subseteq [soft : BOOLEAN, versioned : BOOLEAN, tenant : BOOLEAN, related : BOOLEAN]
    /\ RowValues # {}

NoRow == [exists |-> FALSE]
Gone == [exists |-> FALSE, removed |-> TRUE]

VARIABLES contract, table, request
serviceVars == <<contract, table, request>>

\* a row that earlier requests left
OldRow(c) ==
    [exists : {TRUE}, tenant : {p.tenant : p \in Members}, deleted : {FALSE, c.soft}, version : {1},
     value : {CHOOSE v \in RowValues : TRUE}, ref : {NoRef}]

ServiceInit ==
    /\ contract \in ServiceContracts
    /\ table \in [RowIds -> {NoRow} \cup OldRow(contract)]
    /\ request = [r \in Requests |-> [at |-> "none"]]

Writes == {"create", "update", "delete", "restore"}
InScope(p, action) == (IF action \in Writes THEN "write" ELSE "read") \in p.scopes

Continue(r, at) == request' = [request EXCEPT ![r].at = at]
Conclude(r, how) == request' = [request EXCEPT ![r] = [at |-> how]]

Ask(r, p, action, id, values) ==
    /\ request[r].at = "none"
    /\ IF InScope(p, action) /\ Authorize(ServicePolicy, p, action, Nobody, Nobody)
       THEN request' = [request EXCEPT ![r] =
               [at |-> IF action \in {"create", "update"} THEN "validate" ELSE "load",
                tenant |-> p.tenant, action |-> action, id |-> id, values |-> values, item |-> NoRow]]
       ELSE Conclude(r, "refused")
    /\ UNCHANGED <<contract, table>>

\* mutant: the item is looked up by its key alone
VisibleToAll(row, tenant, deletedToo) ==
    row.exists /\ (deletedToo \/ ~contract.soft \/ ~row.deleted)

Visible(row, tenant, deletedToo) ==
    /\ row.exists
    /\ contract.tenant => row.tenant = tenant
    /\ deletedToo \/ ~contract.soft \/ ~row.deleted

Referred(values) == IF "ref" \in DOMAIN values THEN {values.ref} \ {NoRef} ELSE {}

Validate(r) ==
    LET q == request[r]
    IN  /\ q.at = "validate"
        /\ IF contract.related /\ contract.tenant
              /\ {i \in Referred(q.values) : Visible(table[i], q.tenant, FALSE)} # Referred(q.values)
           THEN Conclude(r, "refused")
           ELSE Continue(r, IF q.action = "create" THEN "insert" ELSE "load")
        /\ UNCHANGED <<contract, table>>

\* the foreign key of the database, composite where there is a tenant
Referable(tenant, values) ==
    {i \in Referred(values) :
        table[i].exists /\ (contract.tenant => table[i].tenant = tenant)} = Referred(values)

InsertRow(r) ==
    LET q == request[r]
    IN  /\ q.at = "insert"
        /\ IF Referable(q.tenant, q.values)
           THEN \E i \in {j \in RowIds : table[j] = NoRow} :
                   /\ table' = [table EXCEPT ![i] =
                         [exists |-> TRUE, tenant |-> q.tenant, deleted |-> FALSE, version |-> 1,
                          value |-> q.values.value, ref |-> q.values.ref]]
                   /\ Conclude(r, "done")
           ELSE Conclude(r, "failed") /\ UNCHANGED table
        /\ UNCHANGED contract

NothingToDo(action, row) ==
    \/ action = "read"
    \/ contract.soft /\ action = "delete" /\ row.deleted
    \/ action = "restore" /\ ~row.deleted

LoadRow(r) ==
    LET q == request[r]
        row == table[q.id]
        seen == Visible(row, q.tenant, q.action \in {"delete", "restore"})
    IN  /\ q.at = "load"
        /\ IF ~seen THEN Conclude(r, "missing")
           ELSE IF NothingToDo(q.action, row) THEN Conclude(r, "done")
           ELSE request' = [request EXCEPT ![r].item = row, ![r].at = "commit"]
        /\ UNCHANGED <<contract, table>>

Changed(q) ==
    CASE q.action = "update"  -> [n \in {m \in DOMAIN q.values : q.values[m] # q.item[m]} |-> q.values[n]]
      [] q.action = "delete"  -> [deleted |-> TRUE]
      [] OTHER                -> [deleted |-> FALSE]

\* mutant: whatever was committed since is written over
UnchangedAnyway(q) == table[q.id].exists

\* the row is still there and, with a version column, is what was loaded
Unchanged(q) ==
    /\ table[q.id].exists
    /\ contract.versioned => table[q.id].version = q.item.version

Written(row, changed) ==
    [n \in DOMAIN row |-> IF n \in DOMAIN changed THEN changed[n]
                          ELSE IF n = "version" /\ contract.versioned THEN row.version + 1 ELSE row[n]]

CommitRow(r) ==
    LET q == request[r]
        changed == Changed(q)
    IN  /\ q.at = "commit"
        /\ contract.soft \/ q.action # "delete"
        /\ IF DOMAIN changed = {} THEN Conclude(r, "done") /\ UNCHANGED table
           ELSE IF Unchanged(q) /\ Referable(q.tenant, changed)
           THEN table' = [table EXCEPT ![q.id] = Written(@, changed)] /\ Conclude(r, "done")
           ELSE Conclude(r, "failed") /\ UNCHANGED table
        /\ UNCHANGED contract

RemoveRow(r) ==
    LET q == request[r]
    IN  /\ q.at = "commit" /\ ~contract.soft /\ q.action = "delete"
        /\ \A i \in RowIds : table[i].exists => table[i].ref # q.id
        /\ IF table[q.id].exists /\ contract.versioned /\ table[q.id].version # q.item.version
           THEN Conclude(r, "failed") /\ UNCHANGED table
           ELSE Conclude(r, "done") /\ table' = [table EXCEPT ![q.id] = Gone]
        /\ UNCHANGED contract

Updates == {[value |-> v] : v \in RowValues}
              \cup IF contract.related THEN {[ref |-> i] : i \in RowIds \cup {NoRef}} ELSE {}
Creations == {[value |-> v, ref |-> i] :
                 v \in RowValues, i \in IF contract.related THEN RowIds \cup {NoRef} ELSE {NoRef}}

ServiceNext ==
    \E r \in Requests :
        \/ \E p \in Members :
              \/ \E i \in RowIds :
                    \/ \E values \in Updates : Ask(r, p, "update", i, values)
                    \/ Ask(r, p, "read", i, <<>>)
                    \/ Ask(r, p, "delete", i, <<>>)
                    \/ contract.soft /\ Ask(r, p, "restore", i, <<>>)
              \/ \E values \in Creations : Ask(r, p, "create", NoRef, values)
        \/ Validate(r) \/ InsertRow(r) \/ LoadRow(r) \/ CommitRow(r) \/ RemoveRow(r)

-----------------------------------------------------------------------------
\* With a version column, no update reaches a row that was deleted after the
\* update had loaded it: the deletion and its restoration are never written over.
DeletedStaysAsItWas ==
    [][contract.soft /\ contract.versioned =>
          \A i \in RowIds :
              table[i].exists /\ table[i].deleted /\ table'[i].exists =>
                  table'[i].value = table[i].value /\ table'[i].ref = table[i].ref]_serviceVars

\* In a module with tenants a row belongs to the tenant that created it, only
\* requests of that tenant change it, and what it refers to is that tenant's.
RowsOfTheirTenant ==
    [][contract.tenant =>
          \A i \in RowIds :
              table'[i] # table[i] =>
                  /\ \E r \in Requests :
                        /\ request'[r] # request[r]
                        /\ request[r].tenant = (IF table[i].exists THEN table[i] ELSE table'[i]).tenant
                  /\ table[i].exists /\ table'[i].exists => table'[i].tenant = table[i].tenant
                  /\ table'[i].exists /\ table'[i].ref # NoRef =>
                        table'[table'[i].ref].tenant = table'[i].tenant]_serviceVars
=============================================================================
