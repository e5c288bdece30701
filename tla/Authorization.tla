------------------------------ MODULE Authorization ------------------------------
(***************************************************************************)
(* Default-deny decisions (tools/authorization.py), which the object       *)
(* storage, the webhooks and the generated services ask for.  A policy is  *)
(* the permissions of each role and what is denied to all; a principal has *)
(* an id, the tenant of its context and roles.                             *)
(***************************************************************************)
EXTENDS Integers

Nobody == "nobody"              \* no owner, no tenant: Python's None
SupportedActions == {"create", "read", "list", "update", "delete", "restore"}

\* the permissions to do it, and to do it to what one owns
Plain(action) == <<"any", action>>
Own(action) == <<"own", action>>

ValidPolicy(policy) ==
    /\ DOMAIN policy.roles # {}
    /\ \A role \in DOMAIN policy.roles : policy.roles[role] # {}

\* an unknown role denies, whatever the others permit
RolesKnown(policy, p) == p.roles \subseteq DOMAIN policy.roles

Candidates(p, action, owner) ==
    {Plain(action)} \cup IF owner = p.id THEN {Own(action)} ELSE {}

Authorize(policy, p, action, tenant, owner) ==
    /\ action \in SupportedActions
    /\ tenant # Nobody => tenant = p.tenant
    /\ RolesKnown(policy, p)
    /\ Candidates(p, action, owner) \cap policy.denied = {}
    /\ \E role \in p.roles : Candidates(p, action, owner) \cap policy.roles[role] # {}
=============================================================================
