-------------------------- MODULE MCPlatformOperations --------------------------
(* Small instances of the services. *)
EXTENDS PlatformOperations

Editors == {Plain("create"), Plain("update"), Plain("read"), Plain("delete"), Plain("restore")}
MCPolicy == [roles |-> [editor |-> Editors, owner |-> {Own("update")}], denied |-> {}]

\* an editor of each tenant, and one who only updates what is his
MCPrincipals ==
    {[id |-> "ann", tenant |-> "t1", roles |-> {"editor"}],
     [id |-> "bob", tenant |-> "t2", roles |-> {"editor"}]}

MCMembers ==
    {[id |-> "ann", tenant |-> "t1", roles |-> {"editor"}, scopes |-> {"read", "write"}],
     [id |-> "bob", tenant |-> "t2", roles |-> {"editor"}, scopes |-> {"write"}],
     [id |-> "eve", tenant |-> "t1", roles |-> {"owner", "guest"}, scopes |-> {"read", "write"}]}

E(type, tenant, fields, depth) == [type |-> type, tenant |-> tenant, fields |-> fields, depth |-> depth]
MCEvents ==
    {E("created", "t1", {"name"}, 0), E("tick", Nobody, {}, 1), E("tick", "t1", {"name"}, 0), E("unknown", "t1", {}, 0),
     E("created", Nobody, {}, 0), E("created", "t1", {"name"}, 2), E("created", "t1", {"tenant_id"}, 0)}
MCFields == [created |-> {"name"}, tick |-> {}]
MCHandlers == [created |-> <<"local", "webhook", "local">>, tick |-> <<"webhook">>]

R(sound, commit, snapshot, severities) ==
    [sound |-> sound, commit |-> commit, kind |-> "git_worktree", snapshot |-> snapshot, severities |-> severities]
MCReviews == {R(TRUE, "a", "clean", {}), R(TRUE, "a", "dirty", {"low"}), R(TRUE, "b", "clean", {"high"}),
              R(FALSE, "a", "clean", {})}
V(attested, commit, checks, docker) ==
    [attested |-> attested, commit |-> commit, checks |-> checks, docker |-> docker]
MCEvidence == {V("a", "a", {"postgresql"}, TRUE), V("b", "b", {"postgresql"}, TRUE), V("a", "a", {}, TRUE)}
MCNoEvidence == V("none", "none", {}, FALSE)
MCContracts == <<{"docker"}, {}>>
MCRuns == [clean : BOOLEAN, counted : BOOLEAN, skips : {{}, {"docker"}}]

C(soft, versioned, tenant, related) ==
    [soft |-> soft, versioned |-> versioned, tenant |-> tenant, related |-> related]
MCServiceContracts == {C(TRUE, TRUE, TRUE, TRUE), C(TRUE, FALSE, TRUE, FALSE), C(FALSE, TRUE, FALSE, FALSE)}

M(kind, says) == [kind |-> kind, says |-> says]
Reference(of, column) == [table |-> of, column |-> column]
ToUsers == M("fk", Reference("users", "id"))
ToNotes == M("fk", Reference("notes", "id"))
Collects(class, collection) == M("one_to_many", [class |-> class, collection |-> collection])
Word == M("regex", "word")
MCModifiers ==
    {ToUsers, ToNotes, Collects("default", "notes"), M("self_relationship", "children"), M("one_to_one", "yes"),
     M("cascade_delete", "yes"), M("unique", "yes"), M("nullable", "yes"), M("computed", {"n"}), M("hybrid", {"n"}),
     M("encrypted", "yes"), M("validator", "rules.f"), M("validator", "rules.g"), Word}
\* a pattern stays linear with what follows it but for a sum or another repetition
MCFollowing == {M("nullable", "yes"), M("validator", "rules.f"), M("validator", "rules.g"), ToUsers}
MCLinearPatterns == {<<Word>> \o rest : rest \in SeqOf(MCFollowing, 2)}
D(name, type, target, modifiers) == [name |-> name, type |-> type, target |-> target, modifiers |-> modifiers]
MCContexts ==
    {<<D("n", "int", "none", <<M("nullable", "yes")>>)>>,
     <<D("author", "str", "none", <<>>)>>,
     <<D("children", "many_to_many", "tag", <<>>)>>,
     <<D("parent_id", "int", "none", <<ToNotes, M("self_relationship", "children")>>)>>,
     <<D("author_id", "int", "none", <<ToUsers, Collects("user", "notes")>>)>>,
     <<D("tenant_id_id", "int", "none", <<ToUsers, Collects("user", "notes")>>)>>,
     <<D("parent_id", "int", "none", <<ToUsers, M("one_to_one", "yes"), M("cascade_delete", "yes")>>)>>}
MCNewFields == {[type |-> "int", target |-> "none"], [type |-> "str", target |-> "none"], [type |-> "many_to_many", target |-> "user"]}
O(soft, audit, version, tenant, indexes) ==
    [soft |-> soft, audit |-> audit, version |-> version, tenant |-> tenant, indexes |-> indexes]
MCOptions == {O(FALSE, FALSE, FALSE, FALSE, <<>>), O(TRUE, TRUE, TRUE, TRUE, <<<<"author_id", "deleted_at">>>>)}
MCTargetOf == [author_id |-> "author", parent_id |-> "parent", tenant_id_id |-> "tenant_id"]

\* a name in two spellings, a tale longer than a value that is read back,
\* a technology as long as an item of a project may be, and a word for "none"
MCText(word, form, length) == [word |-> word, form |-> form, length |-> length]
MCTexts == {MCText("arca", "same", 10), MCText("arca", "upper", 10), MCText("tale", "same", 5000)}
MCUtterances ==
    {[word |-> "brief", says |-> {MCText("arca", "same", 10), MCText("none", "same", 4)}, length |-> 100],
     [word |-> "tale", says |-> {MCText("arca", "upper", 10)}, length |-> 5000]}
MCTale == CHOOSE u \in MCUtterances : u.word = "tale"
MCIntakeFields == {"proposed_project_name", "product_description", "authentication_requirements", "technology_preferences"}
NothingSaid == [f \in MCIntakeFields |-> {}]
Told(u, fields, questions) == [request |-> <<Words(u)>>, fields |-> fields, questions |-> questions, assumptions |-> {}]
MCCandidates ==
    LET sql == IntentValue(MCText("sql", "same", 500), "explicit", {MCText("arca", "upper", 10)})
        name == IntentValue(MCText("arca", "same", 10), "derived", {MCText("arca", "upper", 10)})
        login == IntentValue(MCText("arca", "upper", 10), "explicit", {MCText("arca", "upper", 10)})
        tale == IntentValue(MCText("tale", "same", 5000), "derived", {MCText("arca", "upper", 10)})
        login_question(wording, blocking) == Question("authentication_requirements", wording, blocking, {})
    IN  {Told(MCTale, [NothingSaid EXCEPT !["authentication_requirements"] = {login}, !["technology_preferences"] = {sql},
                                 !["proposed_project_name"] = {name}],
               {login_question("ask", FALSE)}),
         Told(MCTale, [NothingSaid EXCEPT !["product_description"] = {tale}], {}),
         Told(MCTale, NothingSaid, {login_question("ask", TRUE), login_question("other", FALSE)})}

(***************************************************************************)
(* Three approvals of models: one that has nothing but claims for its two  *)
(* entities, one with an identity, a repository and a lifecycle in place,  *)
(* and one with a claim that no amendment takes.                           *)
(***************************************************************************)
Claim(slot, values, decision) ==
    [slot |-> slot, values |-> values, decision |-> decision, sources |-> {decision}]

Declared(name, type, unique, external, domain, values) ==
    [name |-> name, type |-> type, required |-> TRUE, collection |-> FALSE,
     mutable |-> ~unique, unique |-> unique, external |-> external,
     domain |-> domain, values |-> values]

Field(name, type, unique, domain, sources) ==
    [name |-> name, type |-> type, required |-> TRUE, collection |-> FALSE,
     mutable |-> ~unique, unique |-> unique, domain |-> domain, sources |-> sources]

Fresh ==
    [id |-> "fresh", domains |-> {},
     entities |-> {[id |-> "builds", fields |-> {}, identity |-> {}, lifecycle |-> {},
                    choices |-> {Claim("identity", {"uuid"}, "d1"),
                                 Claim("lifecycle", {"queued", "done"}, "d2"),
                                 Claim("uniqueness", {"identity_only"}, "d3")}],
                   [id |-> "releases", fields |-> {Field("id", "uuid", TRUE, None, {"a1"})},
                    identity |-> {"id"}, lifecycle |-> {},
                    choices |-> {Claim("lifecycle", {"queued", "done"}, "d4")}]}]

Connected ==
    [id |-> "connected", domains |-> {[name |-> "state", values |-> {"open", "closed"}]},
     entities |-> {[id |-> "links",
                    fields |-> {Field("id", "uuid", TRUE, None, {"a1"}),
                                Field("repository_id", "string", FALSE, None, {"d5"}),
                                Field("status", "enum", FALSE, "state", {"d6"})},
                    identity |-> {"id"}, lifecycle |-> {"state"},
                    choices |-> {Claim("external_reference", {"repository_id", "string"}, "d5"),
                                 Claim("external_reference", {"external_id", "integer"}, "d7"),
                                 Claim("lifecycle", {"open", "closed"}, "d6"),
                                 Claim("principal_reference", {"external_principal_id"}, "d8"),
                                 Claim("field", {"outcome_reference", "external_reference"}, "d9")}]}]

\* the labels of one entity's states are refused by an amendment
Scripted ==
    [id |-> "scripted", domains |-> {},
     entities |-> {[id |-> "jobs", fields |-> {Field("id", "uuid", TRUE, None, {"a1"})},
                    identity |-> {"id"}, lifecycle |-> {},
                    choices |-> {Claim("lifecycle", {"powershell", "done"}, "d10"),
                                 Claim("principal_reference", {"external_principal_id"}, "d11")}]}]

MCParents == {Fresh, Connected, Scripted}

MCNames == {"id", "status", "Status", "state", "State", "phase", "owner", "external", "outcome",
            "repository_id", "token"}

MCNorm ==
    [n \in MCNames |-> CASE n = "Status" -> "status" [] n = "State" -> "state" [] OTHER -> n]

MCDeclarations ==
    {Declared("id", "uuid", TRUE, FALSE, None, {}), Declared("token", "uuid", TRUE, FALSE, None, {}),
     Declared("status", "enum", FALSE, FALSE, "State", {"queued", "done"}),
     Declared("Status", "enum", FALSE, FALSE, "state", {"queued", "done"}),
     Declared("phase", "enum", FALSE, FALSE, "phase", {"queued", "done"}),
     Declared("status", "enum", FALSE, FALSE, "phase", {"queued"}),
     Declared("phase", "enum", FALSE, FALSE, "phase", {"powershell", "done"}),
     Declared("external", "integer", FALSE, TRUE, None, {}),
     Declared("owner", "string", FALSE, TRUE, None, {}),
     Declared("Status", "string", FALSE, TRUE, None, {}),
     Declared("outcome", "external_reference", FALSE, TRUE, None, {}),
     Declared("owner", "external_reference", FALSE, TRUE, None, {}),
     Declared("external", "external_reference", TRUE, TRUE, None, {})}

(* What was made of each: a handoff, two specifications of one, and a run.     *)
Handoff(p) == [kind |-> "handoff", parent |-> p]
SpecificationOf(p, n) == [kind |-> "specification", handoff |-> Handoff(p), variant |-> n]
Finalization(p, n) ==
    [kind |-> "finalization", handoff |-> Handoff(p), specification |-> SpecificationOf(p, n)]
Approved(p) ==
    [kind |-> "approved", handoff |-> Handoff(p), finalization |-> Finalization(p, 1),
     specification |-> SpecificationOf(p, 1)]
Requested(p) ==
    [kind |-> "request", handoff |-> Handoff(p), finalization |-> Finalization(p, 1),
     specification |-> SpecificationOf(p, 1), approved |-> Approved(p)]
Ran(p) ==
    [kind |-> "run", handoff |-> Handoff(p), finalization |-> Finalization(p, 1),
     specification |-> SpecificationOf(p, 1), approved |-> Approved(p), request |-> Requested(p)]

MCDownstream ==
    {Handoff("fresh"), Handoff("connected"), SpecificationOf("fresh", 1), SpecificationOf("fresh", 2),
     Finalization("fresh", 1), Finalization("fresh", 2), Approved("fresh"), Requested("fresh"),
     Ran("fresh"), SpecificationOf("connected", 1)}

MCProposed == {d \in MCDeclarations : d.name \in {"id", "phase"}}
=============================================================================
